---- MODULE Spec2Model ----
(***************************************************************************)
(* Model of the dex-auth charm (src/src/charm.py): the reconcile entry     *)
(* point Operator.main, the config compiler, the issuer URL resolver, the  *)
(* pebble apply step and the OAuth client event handlers.                  *)
(*                                                                         *)
(* Conventions.                                                            *)
(*  - A Python Optional is a sequence: None is <<>>, a value v is <<v>>.   *)
(*  - A URL (and any string that is taken apart or concatenated) is a      *)
(*    sequence of string tokens; the empty string is <<>>; f-string        *)
(*    concatenation is \o.  Other strings are TLA+ strings, "" is falsy.   *)
(*  - Each event of the charm is one atomic step: the environment change   *)
(*    the event reports, followed by the whole handler.  `run` records     *)
(*    what the last handler did (its operations in order).                 *)
(***************************************************************************)
EXTENDS Integers, Sequences, FiniteSets, TLC

(***************************************************************************)
(* Bounds of the model.                                                    *)
(***************************************************************************)
\* number of distinct outcomes of a random draw (password/salt/uuid, token_hex)
NumSeeds == 2
\* largest number of applications related over oidc-client
MaxOidcClients == 2
\* number of environment changes (config, relation, leadership, container,
\* OAuth client events) explored in one behaviour of Spec
MaxChanges == 3
\* dex-oidc-config relations
MaxOidcConfigRelations == 2
\* dex-oidc-config relations of a requirer charm
MaxRequirerRelations == 2

None == <<>>
Some(v) == <<v>>
IsSome(o) == o # <<>>
Value(o) == o[1]

Seeds == 1..NumSeeds

(***************************************************************************)
(* Names fixed by the deployment and by the charm.                         *)
(***************************************************************************)
AppName == "dex-auth"
Namespace == "kubeflow"
container_name == "dex"
entrypoint == "/usr/local/bin/docker-entrypoint"
dex_config_path == "/etc/dex/config.docker.yaml"
DEFAULT_OAUTH_SCOPES == <<"openid", "email", "profile">>
SecretKeys == {"client-id", "client-secret", "redirect-uri", "name"}

(***************************************************************************)
(* Values the configuration options and the environment range over.        *)
(***************************************************************************)
IssuerUrls == {<<>>, <<"http://", "my-dex.io", "/dex">>}
PublicUrls == {<<>>, <<"my-dex.io:5557">>, <<"http://", "my-dex.io:5557">>,
               <<"https://", "my-dex.io:5557">>, <<"ftp://", "my-dex.io:5557">>}
IngressUrls == {<<>>, <<"http://", "ingress.example", "/kubeflow-dex">>}
ConnectorsValues == {"", "[]", "connector01"}
Usernames == {"", "new-user"}
Passwords == {<<>>, <<"new-pass">>}
Ports == {5556, 5557}
RedirectUris == {<<"https://", "app1", "/callback">>, <<"https://", "app2", "/callback">>}
RelationIds == {7}
RelStates == {"absent", "no_versions", "incompatible", "ok"}

DefaultConfig ==
  [issuer_url |-> <<>>, public_url |-> <<>>, connectors |-> "",
   enable_password_db |-> TRUE, static_username |-> "", static_password |-> <<>>,
   port |-> 5556]

(***************************************************************************)
(* Statuses (ops.model) and ErrorWithStatus.status.                        *)
(***************************************************************************)
UnknownStatus == [type |-> "unknown", msg |-> ""]
ActiveStatus == [type |-> "active", msg |-> ""]
WaitingStatus(m) == [type |-> "waiting", msg |-> m]
BlockedStatus(m) == [type |-> "blocked", msg |-> m]
MaintenanceStatus(m) == [type |-> "maintenance", msg |-> m]

(***************************************************************************)
(* Library conversions, modelled by what they do.                          *)
(***************************************************************************)
\* yaml.safe_load of the connectors option: "" loads as None, "[]" as the
\* empty list, a plain scalar as a string.
yaml_safe_load(s) ==
  IF s = "" THEN [kind |-> "none", items |-> <<>>]
  ELSE IF s = "[]" THEN [kind |-> "list", items |-> <<>>]
  ELSE [kind |-> "str", items |-> <<s>>]

\* mutant: only None counts as no connectors
Truthy_unless_none(v) == v.kind # "none"

\* Python truthiness of a loaded YAML value.
Truthy(v) == v.kind # "none" /\ v.items # <<>>

\* bcrypt.hashpw(password, salt): a deterministic function of both.
bcrypt_hashpw(password, salt) == <<"bcrypt", salt, password>>

\* yaml.dump of a mapping: the key/value pairs in sorted key order.
yaml_dump(d) ==
  << <<"connectors", d.connectors>>,
     <<"enablePasswordDB", d.enablePasswordDB>>,
     <<"issuer", d.issuer>>,
     <<"logger", d.logger>>,
     <<"oauth2", d.oauth2>>,
     <<"staticClients", d.staticClients>>,
     <<"staticPasswords", d.staticPasswords>>,
     <<"storage", d.storage>>,
     <<"telemetry", d.telemetry>>,
     <<"web", d.web>> >>

\* str.startswith(("http://", "https://")) on a tokenised URL.
HasHttpScheme(url) == Len(url) > 0 /\ Head(url) \in {"http://", "https://"}

Count(log, op) == Cardinality({i \in DOMAIN log : log[i] = op})
Last(s) == s[Len(s)]

(***************************************************************************)
(* State.                                                                  *)
(***************************************************************************)
VARIABLES
  leader,      \* self.unit.is_leader()
  canConnect,  \* self._container.can_connect()
  config,      \* self.model.config
  state,       \* StoredState: None, or username/password/salt/user_id
  secret,      \* contents of the secrets labelled oauth.static.client; None if there is none
  oidcRel,     \* oidc-client relation: negotiation state and published clients
  ingressRel,  \* ingress relation: negotiation state
  ingressUrl,  \* self._ingress.url (ingress-v2), <<>> when there is none
  plan,        \* services of the container's pebble plan
  file,        \* content of /etc/dex/config.docker.yaml in the container, or None
  status,      \* self.unit.status
  dexOidcConfig, \* this app's data bag in each dex-oidc-config relation: its issuer-url
  requirer,    \* a charm using DexOidcConfigRequirer: its relations, its last call
  pebbleHealthy, \* whether Pebble can (re)start the dex service
  oauthService, \* the last call of an OAuthRelationService method and its outcome
  run,         \* what the last handler did
  changes      \* number of environment changes so far

vars == <<leader, canConnect, config, state, secret, oidcRel, ingressRel,
          ingressUrl, plan, file, status, dexOidcConfig, requirer, pebbleHealthy,
          oauthService, run, changes>>

\* The charm as its handlers see it.  restart_fails: whether Pebble fails to
\* restart the service (container.restart raises pebble.ChangeError).
Self ==
  [leader |-> leader, can_connect |-> canConnect, config |-> config,
   state |-> state, secret |-> secret, oidc |-> oidcRel, ingress |-> ingressRel,
   ingress_url |-> ingressUrl, plan |-> plan, file |-> file, status |-> status,
   restart_fails |-> ~pebbleHealthy]

\* what main found when it was entered
Snapshot(self) ==
  [state |-> self.state, secret |-> self.secret, plan |-> self.plan, file |-> self.file,
   status |-> self.status]

\* handler: the handler dispatched; main: whether it entered Operator.main;
\* leader: is_leader() during the run; pre: the charm at the entry of main (of
\* the handler, if main was not entered); log: the operations in order;
\* doc: the document the config compiler returned; raised: the exception
\* that left the handler; ingress_data, oauth_info, creds: what was
\* written to the ingress and oauth relations.
NoRun ==
  [handler |-> "", main |-> FALSE, leader |-> FALSE,
   pre |-> [state |-> None, secret |-> None, plan |-> {}, file |-> None,
            status |-> UnknownStatus],
   log |-> <<>>, doc |-> None, raised |-> "",
   ingress_data |-> None, oauth_info |-> None, creds |-> None]

(***************************************************************************)
(* Operator._dex_auth_layer: the services of the desired pebble layer.     *)
(***************************************************************************)
\* mutant: the command of the desired service carries the configured port
dex_auth_layer_with_port ==
  {[name |-> container_name,
    service |-> [override |-> "replace",
                 summary |-> "entrypoint of the dex-auth-operator image",
                 command |-> <<entrypoint, " dex serve ", dex_config_path,
                               ToString(config.port)>>,
                 startup |-> "enabled",
                 user |-> "_daemon_",
                 environment |-> [KUBERNETES_POD_NAMESPACE |-> Namespace]]]}

dex_auth_layer ==
  {[name |-> container_name,
    service |-> [override |-> "replace",
                 summary |-> "entrypoint of the dex-auth-operator image",
                 command |-> <<entrypoint, " dex serve ", dex_config_path>>,
                 startup |-> "enabled",
                 user |-> "_daemon_",
                 environment |-> [KUBERNETES_POD_NAMESPACE |-> Namespace]]]}

\* mutant: the layer's services are added beside the plan's
add_layer_beside(services, layer) == services \cup layer

\* Container.add_layer(label, layer, combine=True) with override: replace:
\* the layer's services replace the plan's services of the same name.
add_layer(services, layer) ==
  {e \in services : e.name \notin {l.name : l \in layer}} \cup layer

(***************************************************************************)
(* Operator._issuer_url                                                    *)
(***************************************************************************)
\* mutant: the ingress URL is preferred to the public-url option
issuer_url_ingress_first(self) ==
  IF self.config.issuer_url # <<>> THEN self.config.issuer_url
  ELSE IF self.ingress_url # <<>> THEN self.ingress_url
  ELSE IF self.config.public_url # <<>> THEN
    (IF ~HasHttpScheme(self.config.public_url)
       THEN <<"http://">> \o self.config.public_url
       ELSE self.config.public_url) \o <<"/dex">>
  ELSE <<"http://", AppName, ".", Namespace, ".svc:", ToString(self.config.port), "/dex">>

issuer_url(self) ==
  IF self.config.issuer_url # <<>> THEN self.config.issuer_url
  ELSE IF self.config.public_url # <<>> THEN
    (IF ~HasHttpScheme(self.config.public_url)
       THEN <<"http://">> \o self.config.public_url
       ELSE self.config.public_url) \o <<"/dex">>
  ELSE IF self.ingress_url # <<>> THEN self.ingress_url
  ELSE <<"http://", AppName, ".", Namespace, ".svc:", ToString(self.config.port), "/dex">>

(***************************************************************************)
(* Operator.ensure_state: StoredState.set_default sets the keys that are   *)
(* not stored yet; the four keys are only ever set together.               *)
(***************************************************************************)
GeneratedState(seed) ==
  [username |-> "admin",
   password |-> <<"choices", ToString(seed)>>,
   salt |-> <<"gensalt", ToString(seed)>>,
   user_id |-> <<"uuid4", ToString(seed)>>]

\* mutant: the stored state is generated anew on every call
ensure_state_regenerates(st, seed) == Some(GeneratedState(seed))

ensure_state(st, seed) == IF IsSome(st) THEN st ELSE Some(GeneratedState(seed))

(***************************************************************************)
(* Operator._check_leader, Operator._check_container_connection: the       *)
(* ErrorWithStatus raised, or None.                                        *)
(***************************************************************************)
ErrorWithStatus(st) == [type |-> "ErrorWithStatus", status |-> st]

\* mutant: the leadership check never raises
check_leader_never_raises(self) == None

check_leader(self) ==
  IF ~self.leader THEN Some(ErrorWithStatus(WaitingStatus("Waiting for leadership")))
  ELSE None

\* mutant: the container's reachability is not checked
check_container_connection_never_raises(self) == None

check_container_connection(self) ==
  IF ~self.can_connect
    THEN Some(ErrorWithStatus(WaitingStatus("Waiting for pod startup to complete")))
    ELSE None

(***************************************************************************)
(* Operator._get_interface: serialized_data_interface.get_interface gives  *)
(* None without a relation, raises NoVersionsListed / NoCompatibleVersions *)
(* while versions are not negotiated.  Returns the error raised, or None.  *)
(***************************************************************************)
NoVersionsListedMsg(name) ==
  IF name = "oidc-client" THEN "NoVersionsListed: oidc-client" ELSE "NoVersionsListed: ingress"
NoCompatibleVersionsMsg(name) ==
  IF name = "oidc-client" THEN "NoCompatibleVersions: oidc-client"
  ELSE "NoCompatibleVersions: ingress"

\* mutant: NoCompatibleVersions is reported as Waiting
get_interface_incompatible_waits(rel, name) ==
  IF rel.status = "no_versions"
    THEN Some(ErrorWithStatus(WaitingStatus(NoVersionsListedMsg(name))))
  ELSE IF rel.status = "incompatible"
    THEN Some(ErrorWithStatus(WaitingStatus(NoCompatibleVersionsMsg(name))))
  ELSE None

get_interface(rel, name) ==
  IF rel.status = "no_versions"
    THEN Some(ErrorWithStatus(WaitingStatus(NoVersionsListedMsg(name))))
  ELSE IF rel.status = "incompatible"
    THEN Some(ErrorWithStatus(BlockedStatus(NoCompatibleVersionsMsg(name))))
  ELSE None

\* an OIDC client registration published by the i-th related application
OidcClient(i) ==
  [id |-> <<"oidc-id", ToString(i)>>, name |-> <<"oidc-name", ToString(i)>>,
   redirectURIs |-> << <<"https://", "oidc", ToString(i)>> >>,
   secret |-> <<"oidc-secret", ToString(i)>>]

\* list(oidc.get_data().values())
oidc_get_data(rel) == [i \in 1..rel.n |-> OidcClient(i)]

(***************************************************************************)
(* Operator._generate_dex_auth_config: the exception raised (or None) and  *)
(* the YAML document (or None).                                            *)
(***************************************************************************)
Raise(name) == [type |-> name, status |-> UnknownStatus]

\* mutant: the static-password option is ignored
StaticPasswordEntry_stored_password(self) ==
  LET st == Value(self.state)
      static_username == IF self.config.static_username # "" THEN self.config.static_username
                         ELSE st.username
  IN [email |-> static_username, hash |-> bcrypt_hashpw(st.password, st.salt),
      username |-> static_username, userID |-> st.user_id]

StaticPasswordEntry(self) ==
  LET st == Value(self.state)
      static_username == IF self.config.static_username # "" THEN self.config.static_username
                         ELSE st.username
      static_password == IF self.config.static_password # <<>> THEN self.config.static_password
                         ELSE st.password
      hashed == bcrypt_hashpw(static_password, st.salt)
  IN [email |-> static_username, hash |-> hashed, username |-> static_username,
      userID |-> st.user_id]

\* mutant: the OAuth static client is put first
static_clients_oauth_first(self, dex_oauth_static_client) ==
  (IF IsSome(dex_oauth_static_client) THEN <<Value(dex_oauth_static_client)>> ELSE <<>>)
  \o (IF self.oidc.status = "ok" THEN oidc_get_data(self.oidc) ELSE <<>>)

\* lines 284-291: oidc_client_info
static_clients(self, dex_oauth_static_client) ==
  (IF self.oidc.status = "ok" THEN oidc_get_data(self.oidc) ELSE <<>>)
  \o (IF IsSome(dex_oauth_static_client) THEN <<Value(dex_oauth_static_client)>> ELSE <<>>)

\* mutant: the static password entry is built whatever enable-password-db is
static_config_always(self) == <<StaticPasswordEntry(self)>>

\* lines 298-324: static_config["staticPasswords"]
static_config(self) ==
  IF self.config.enable_password_db THEN <<StaticPasswordEntry(self)>> ELSE <<>>

generate_dex_auth_config(self, dex_oauth_static_client) ==
  LET oidc == get_interface(self.oidc, "oidc-client")
      connectors == yaml_safe_load(self.config.connectors)
      enable_password_db == self.config.enable_password_db
  IN IF IsSome(oidc) THEN [exc |-> oidc, doc |-> None]
     ELSE IF ~enable_password_db /\ ~Truthy(connectors) THEN
       [exc |-> Some(ErrorWithStatus(BlockedStatus(
                  "Please add a connectors configuration to proceed without a static login."))),
        doc |-> None]
     ELSE IF enable_password_db /\ ~IsSome(self.state) THEN
       [exc |-> Some(Raise("AttributeError")), doc |-> None]
     ELSE
       [exc |-> None,
        doc |-> Some(yaml_dump(
          [issuer |-> issuer_url(self),
           storage |-> [type |-> "kubernetes", config |-> [inCluster |-> TRUE]],
           web |-> [http |-> <<"0.0.0.0:", ToString(self.config.port)>>],
           telemetry |-> [http |-> <<"0.0.0.0:5558">>],
           logger |-> [level |-> "debug", format |-> "text"],
           oauth2 |-> [skipApprovalScreen |-> TRUE],
           staticClients |-> static_clients(self, dex_oauth_static_client),
           connectors |-> connectors,
           enablePasswordDB |-> enable_password_db,
           staticPasswords |-> static_config(self)]))]

(***************************************************************************)
(* Operator._update_layer.  Container.pull of a path that does not exist   *)
(* raises ops.pebble.PathError, which nothing catches.  Returns the        *)
(* exception (or None), the operations done, and the plan, file and status *)
(* it leaves.                                                              *)
(***************************************************************************)
\* mutant: the service is restarted only when the layer or the file changed
apply_layer_restart_on_change(self, gen) ==
  LET layer_differs == self.plan # dex_auth_layer
      config_differs == self.file # gen.doc
  IN [exc |-> IF IsSome(self.file) THEN None ELSE Some([type |-> "PathError",
                                                        status |-> UnknownStatus]),
      log |-> <<"compile">> \o (IF layer_differs THEN <<"add_layer">> ELSE <<>>)
              \o (IF IsSome(self.file) /\ config_differs THEN <<"push">> ELSE <<>>)
              \o (IF IsSome(self.file) /\ (layer_differs \/ config_differs)
                    THEN <<"restart">> ELSE <<>>),
      doc |-> gen.doc,
      plan |-> IF layer_differs THEN add_layer(self.plan, dex_auth_layer) ELSE self.plan,
      file |-> IF IsSome(self.file) /\ config_differs THEN gen.doc ELSE self.file,
      status |-> IF layer_differs THEN MaintenanceStatus("Applying new pebble layer")
                 ELSE self.status]

\* mutant: the config file is pushed without comparing it
apply_layer_always_push(self, gen) ==
  LET layer_differs == self.plan # dex_auth_layer
  IN [exc |-> IF IsSome(self.file) THEN None ELSE Some([type |-> "PathError",
                                                        status |-> UnknownStatus]),
      log |-> <<"compile">> \o (IF layer_differs THEN <<"add_layer">> ELSE <<>>)
              \o (IF IsSome(self.file) THEN <<"push", "restart">> ELSE <<>>),
      doc |-> gen.doc,
      plan |-> IF layer_differs THEN add_layer(self.plan, dex_auth_layer) ELSE self.plan,
      file |-> IF IsSome(self.file) THEN gen.doc ELSE self.file,
      status |-> IF layer_differs THEN MaintenanceStatus("Applying new pebble layer")
                 ELSE self.status]

\* mutant: the layer is never written
apply_layer_no_layer_write(self, gen) ==
  LET config_differs == self.file # gen.doc
  IN [exc |-> IF IsSome(self.file) THEN None ELSE Some([type |-> "PathError",
                                                        status |-> UnknownStatus]),
      log |-> <<"compile">>
              \o (IF IsSome(self.file) /\ config_differs THEN <<"push">> ELSE <<>>)
              \o (IF IsSome(self.file) THEN <<"restart">> ELSE <<>>),
      doc |-> gen.doc,
      plan |-> self.plan,
      file |-> IF IsSome(self.file) /\ config_differs THEN gen.doc ELSE self.file,
      status |-> self.status]

\* mutant: the service is restarted before the config file is written
apply_layer_restart_first(self, gen) ==
  LET layer_differs == self.plan # dex_auth_layer
      config_differs == self.file # gen.doc
  IN [exc |-> IF IsSome(self.file) THEN None ELSE Some([type |-> "PathError",
                                                        status |-> UnknownStatus]),
      log |-> <<"compile">> \o (IF layer_differs THEN <<"add_layer">> ELSE <<>>)
              \o (IF IsSome(self.file) THEN <<"restart">> ELSE <<>>)
              \o (IF IsSome(self.file) /\ config_differs THEN <<"push">> ELSE <<>>),
      doc |-> gen.doc,
      plan |-> IF layer_differs THEN add_layer(self.plan, dex_auth_layer) ELSE self.plan,
      file |-> IF IsSome(self.file) /\ config_differs THEN gen.doc ELSE self.file,
      status |-> IF layer_differs THEN MaintenanceStatus("Applying new pebble layer")
                 ELSE self.status]

\* mutant: the service is restarted only after a write, on a workload whose
\* restart can fail
apply_layer_restart_after_write(self, gen) ==
  LET layer_differs == self.plan # dex_auth_layer
      config_differs == self.file # gen.doc
      restarts == layer_differs \/ config_differs
      applied ==
        [exc |-> None,
         log |-> <<"compile">> \o (IF layer_differs THEN <<"add_layer">> ELSE <<>>),
         doc |-> gen.doc,
         plan |-> IF layer_differs THEN add_layer(self.plan, dex_auth_layer) ELSE self.plan,
         file |-> self.file,
         status |-> IF layer_differs THEN MaintenanceStatus("Applying new pebble layer")
                    ELSE self.status]
  IN IF ~IsSome(self.file) THEN [applied EXCEPT !.exc = Some(Raise("PathError"))]
     ELSE [applied EXCEPT
             !.exc = IF restarts /\ self.restart_fails THEN Some(Raise("ChangeError"))
                     ELSE None,
             !.log = @ \o (IF config_differs THEN <<"push">> ELSE <<>>)
                       \o (IF restarts /\ ~self.restart_fails THEN <<"restart">> ELSE <<>>),
             !.file = IF config_differs THEN gen.doc ELSE self.file]

\* lines 176-192: the comparison of plan and file, the writes, the restart
apply_layer(self, gen) ==
  LET new_layer == dex_auth_layer
      layer_differs == self.plan # new_layer
      config_differs == self.file # gen.doc
      applied ==
        [exc |-> None,
         log |-> <<"compile">> \o (IF layer_differs THEN <<"add_layer">> ELSE <<>>),
         doc |-> gen.doc,
         plan |-> IF layer_differs THEN add_layer(self.plan, new_layer) ELSE self.plan,
         file |-> self.file,
         status |-> IF layer_differs THEN MaintenanceStatus("Applying new pebble layer")
                    ELSE self.status]
  IN IF ~IsSome(self.file) THEN [applied EXCEPT !.exc = Some(Raise("PathError"))]
     ELSE IF self.restart_fails THEN
          [applied EXCEPT
             !.exc = Some(Raise("ChangeError")),
             !.log = @ \o (IF config_differs THEN <<"push">> ELSE <<>>),
             !.file = IF config_differs THEN gen.doc ELSE self.file]
     ELSE [applied EXCEPT
             !.log = @ \o (IF config_differs THEN <<"push">> ELSE <<>>) \o <<"restart">>,
             !.file = IF config_differs THEN gen.doc ELSE self.file]

Unapplied(self, exc) ==
  [exc |-> exc, log |-> <<>>, doc |-> None,
   plan |-> self.plan, file |-> self.file, status |-> self.status]

\* mutant: the layer is written before the compiler's exception ends the method
compile_and_apply_layer_first(self, gen) ==
  IF IsSome(gen.exc) THEN
    [Unapplied(self, gen.exc) EXCEPT
       !.log = IF self.plan # dex_auth_layer THEN <<"add_layer">> ELSE <<>>,
       !.plan = add_layer(self.plan, dex_auth_layer)]
  ELSE apply_layer(self, gen)

\* lines 172-174: the exception of the config compiler ends the method
compile_and_apply(self, gen) ==
  IF IsSome(gen.exc) THEN Unapplied(self, gen.exc) ELSE apply_layer(self, gen)

update_layer(self, dex_oauth_static_client) ==
  IF IsSome(check_container_connection(self))
    THEN Unapplied(self, check_container_connection(self))
    ELSE compile_and_apply(self, generate_dex_auth_config(self, dex_oauth_static_client))

(***************************************************************************)
(* Operator.handle_ingress: the exception (or None) and the data sent      *)
(* over the ingress relation (or None).                                    *)
(***************************************************************************)
\* mutant: the route is published with the default port
handle_ingress_default_port(self) ==
  LET interface == get_interface(self.ingress, "ingress")
  IN IF IsSome(interface) THEN [exc |-> interface, data |-> None]
     ELSE IF self.ingress.status # "ok" THEN [exc |-> None, data |-> None]
     ELSE [exc |-> None,
           data |-> Some([prefix |-> "/dex", rewrite |-> "/dex", service |-> AppName,
                          port |-> DefaultConfig.port])]

handle_ingress(self) ==
  LET interface == get_interface(self.ingress, "ingress")
  IN IF IsSome(interface) THEN [exc |-> interface, data |-> None]
     ELSE IF self.ingress.status # "ok" THEN [exc |-> None, data |-> None]
     ELSE [exc |-> None,
           data |-> Some([prefix |-> "/dex", rewrite |-> "/dex", service |-> AppName,
                          port |-> self.config.port])]

(***************************************************************************)
(* Operator.main.  Returns what the run leaves: the stored state, plan,    *)
(* file and status, the operations done in order, the compiled document,   *)
(* the uncaught exception's name ("" when main returns), and what it       *)
(* published over the ingress and oauth relations.                         *)
(***************************************************************************)
OAuthStaticClient(content) ==
  [id |-> content["client-id"], secret |-> content["client-secret"],
   redirectURIs |-> <<content["redirect-uri"]>>, name |-> content["name"]]

\* mutant: the introspection endpoint is published as <issuer>/introspect
ProviderInfo_introspect(issuer) ==
  [issuer_url |-> issuer,
   authorization_endpoint |-> issuer \o <<"/auth">>,
   token_endpoint |-> issuer \o <<"/token">>,
   jwks_endpoint |-> issuer \o <<"/keys">>,
   introspection_endpoint |-> issuer \o <<"/introspect">>,
   userinfo_endpoint |-> issuer \o <<"/userinfo">>,
   scope |-> DEFAULT_OAUTH_SCOPES]

ProviderInfo(issuer) ==
  [issuer_url |-> issuer,
   authorization_endpoint |-> issuer \o <<"/auth">>,
   token_endpoint |-> issuer \o <<"/token">>,
   jwks_endpoint |-> issuer \o <<"/keys">>,
   introspection_endpoint |-> issuer \o <<"/token/introspect">>,
   userinfo_endpoint |-> issuer \o <<"/userinfo">>,
   scope |-> DEFAULT_OAUTH_SCOPES]

MainResult(self, log, doc, raised, ingress_data, oauth_info) ==
  [state |-> self.state, plan |-> self.plan, file |-> self.file, status |-> self.status,
   log |-> log, doc |-> doc, raised |-> raised,
   ingress_data |-> ingress_data, oauth_info |-> oauth_info]

\* lines 265-276: after the try block
main_succeed(self, log, doc, ingress_data) ==
  MainResult([self EXCEPT !.status = ActiveStatus],
             log \o (IF self.leader THEN <<"set_provider_info">> ELSE <<>>)
                 \o <<"status:active">>,
             doc, "", ingress_data,
             IF self.leader THEN Some(ProviderInfo(issuer_url(self))) ELSE None)

\* mutant: the error of handle_ingress is not translated into the status
main_handle_ingress_untranslated(self, log, doc, hi) ==
  main_succeed(self, log \o (IF IsSome(hi.data) THEN <<"send_data">> ELSE <<>>),
               doc, hi.data)

\* line 259 and its except clause
main_handle_ingress(self, log, doc, hi) ==
  IF IsSome(hi.exc) THEN
    MainResult([self EXCEPT !.status = Value(hi.exc).status],
               log \o <<"status:error">>, doc, "", hi.data, None)
  ELSE main_succeed(self, log \o (IF IsSome(hi.data) THEN <<"send_data">> ELSE <<>>),
                    doc, hi.data)

\* what _update_layer left of the charm
AfterUpdateLayer(self, ul) ==
  [self EXCEPT !.plan = ul.plan, !.file = ul.file, !.status = ul.status]

\* mutant: the status is set to Active whatever exception leaves main
main_update_layer_active_on_error(self, log, ul) ==
  IF IsSome(ul.exc) THEN
    IF Value(ul.exc).type = "ErrorWithStatus" THEN
      MainResult([AfterUpdateLayer(self, ul) EXCEPT !.status = Value(ul.exc).status],
                 log \o ul.log \o <<"status:error">>, ul.doc, "", None, None)
    ELSE MainResult([AfterUpdateLayer(self, ul) EXCEPT !.status = ActiveStatus],
                    log \o ul.log \o <<"status:active">>, ul.doc, Value(ul.exc).type,
                    None, None)
  ELSE main_handle_ingress(AfterUpdateLayer(self, ul), log \o ul.log, ul.doc,
                           handle_ingress(AfterUpdateLayer(self, ul)))

\* line 258 and its except clause; any other exception leaves main
main_update_layer(self, log, ul) ==
  IF IsSome(ul.exc) THEN
    IF Value(ul.exc).type = "ErrorWithStatus" THEN
      MainResult([AfterUpdateLayer(self, ul) EXCEPT !.status = Value(ul.exc).status],
                 log \o ul.log \o <<"status:error">>, ul.doc, "", None, None)
    ELSE MainResult(AfterUpdateLayer(self, ul), log \o ul.log, ul.doc, Value(ul.exc).type,
                    None, None)
  ELSE main_handle_ingress(AfterUpdateLayer(self, ul), log \o ul.log, ul.doc,
                           handle_ingress(AfterUpdateLayer(self, ul)))

\* lines 256-257
main_configure(self, st, dex_oauth_static_client) ==
  main_update_layer(
    [self EXCEPT !.status = MaintenanceStatus("Configuring dex charm"), !.state = st],
    <<"status:maintenance">> \o (IF st # self.state THEN <<"state_init">> ELSE <<>>),
    update_layer(
      [self EXCEPT !.status = MaintenanceStatus("Configuring dex charm"), !.state = st],
      dex_oauth_static_client))

main(self, seed) ==
  IF IsSome(self.secret) /\ ~(SecretKeys \subseteq DOMAIN Value(self.secret)) THEN
    MainResult(self, <<>>, None, "KeyError", None, None)
  ELSE IF IsSome(check_leader(self)) THEN
    MainResult([self EXCEPT !.status = Value(check_leader(self)).status],
               <<"status:error">>, None, "", None, None)
  ELSE main_configure(self, ensure_state(self.state, seed),
                      IF IsSome(self.secret) THEN Some(OAuthStaticClient(Value(self.secret)))
                      ELSE None)

(***************************************************************************)
(* One dispatch of an event whose handler is Operator.main, in the         *)
(* environment `self`.                                                     *)
(***************************************************************************)
RunRecord(handler, self, r, prelog, creds) ==
  [handler |-> handler, main |-> TRUE, leader |-> self.leader, pre |-> Snapshot(self),
   log |-> prelog \o r.log, doc |-> r.doc,
   raised |-> r.raised, ingress_data |-> r.ingress_data, oauth_info |-> r.oauth_info,
   creds |-> creds]

Dispatch(handler, self, prelog, creds) ==
  \E seed \in Seeds :
    \E r \in {main(self, seed)} :
       /\ state' = r.state
       /\ plan' = r.plan
       /\ file' = r.file
       /\ status' = r.status
       /\ run' = RunRecord(handler, self, r, prelog, creds)

\* the handler raised before it reached main
Aborted(handler, self, prelog, raised) ==
  /\ UNCHANGED <<state, plan, file, status>>
  /\ run' = [NoRun EXCEPT !.handler = handler, !.leader = self.leader,
                          !.pre = Snapshot(self), !.log = prelog, !.raised = raised]

Budget == changes < MaxChanges
Spend == changes' = changes + 1

(***************************************************************************)
(* DexOidcConfigProviderWrapper.send_data and the handler                  *)
(* DexOidcConfigProvider._send_data, which observes leader_elected,        *)
(* config_changed and the relation's relation_created.  The provider is    *)
(* built in Operator.__init__ with issuer_url=self._issuer_url: the URL    *)
(* resolved when the event is dispatched.  Returns the relations' data     *)
(* bags and one log entry per bag written.                                 *)
(***************************************************************************)
\* mutant: the data is sent whoever is the leader
send_data_unguarded(is_leader, relations, url) ==
  [relations |-> [i \in DOMAIN relations |-> Some(url)],
   log |-> [i \in DOMAIN relations |-> "send_issuer_url"]]

\* mutant: only the first relation's data bag is updated
send_data_first_relation(is_leader, relations, url) ==
  IF ~is_leader \/ relations = <<>> THEN [relations |-> relations, log |-> <<>>]
  ELSE [relations |-> [relations EXCEPT ![1] = Some(url)], log |-> <<"send_issuer_url">>]

send_data(is_leader, relations, url) ==
  IF ~is_leader THEN [relations |-> relations, log |-> <<>>]
  ELSE [relations |-> [i \in DOMAIN relations |-> Some(url)],
        log |-> [i \in DOMAIN relations |-> "send_issuer_url"]]

on_send_data(self, relations) ==
  LET sent == send_data(self.leader, relations, issuer_url(self))
  IN [relations |-> sent.relations, log |-> <<"_send_data">> \o sent.log]

(***************************************************************************)
(* The environment's values.                                               *)
(***************************************************************************)
Configs ==
  [issuer_url : IssuerUrls, public_url : PublicUrls, connectors : ConnectorsValues,
   enable_password_db : BOOLEAN, static_username : Usernames, static_password : Passwords,
   port : Ports]

OidcRels ==
  {[status |-> s, n |-> 0] : s \in RelStates \ {"ok"}}
  \cup {[status |-> "ok", n |-> k] : k \in 0..MaxOidcClients}

IngressRels == {[status |-> s] : s \in RelStates}

\* the config file the container image ships at dex_config_path, if any
ImageConfig == << <<"issuer", <<"http://", "127.0.0.1:5556", "/dex">>>> >>
ImageFiles == {None, Some(ImageConfig)}

\* secrets.token_hex(16)
token_hex(seed) == <<"token_hex", ToString(seed)>>

SecretContent(id_seed, secret_seed, redirect_uri, relation_id) ==
  [k \in SecretKeys |->
     CASE k = "client-id" -> token_hex(id_seed)
       [] k = "client-secret" -> token_hex(secret_seed)
       [] k = "redirect-uri" -> redirect_uri
       [] k = "name" -> <<"oauth_", ToString(relation_id)>>]

(***************************************************************************)
(* Events observed by Operator.main (charm.py lines 98-110).               *)
(***************************************************************************)
\* install, upgrade_charm, oauth_relation_created: nothing changed
on_main_event ==
  /\ Dispatch("main", Self, <<>>, None)
  /\ UNCHANGED <<oauthService, pebbleHealthy, requirer, dexOidcConfig, leader, canConnect, config, secret, oidcRel, ingressRel, ingressUrl, changes>>

leader_elected ==
  /\ Budget /\ Spend
  /\ ~leader
  /\ leader' = TRUE
  /\ \E sent \in {on_send_data([Self EXCEPT !.leader = TRUE], dexOidcConfig)} :
       /\ dexOidcConfig' = sent.relations
       /\ Dispatch("main", [Self EXCEPT !.leader = TRUE], sent.log, None)
  /\ UNCHANGED <<oauthService, pebbleHealthy, requirer, canConnect, config, secret, oidcRel, ingressRel, ingressUrl>>

config_changed ==
  /\ Budget /\ Spend
  /\ \E c \in
       {[config EXCEPT !.issuer_url = v] : v \in IssuerUrls}
       \cup {[config EXCEPT !.public_url = v] : v \in PublicUrls}
       \cup {[config EXCEPT !.connectors = v] : v \in ConnectorsValues}
       \cup {[config EXCEPT !.enable_password_db = v] : v \in BOOLEAN}
       \cup {[config EXCEPT !.static_username = v] : v \in Usernames}
       \cup {[config EXCEPT !.static_password = v] : v \in Passwords}
       \cup {[config EXCEPT !.port = v] : v \in Ports} :
       /\ c # config
       /\ config' = c
       /\ \E sent \in {on_send_data([Self EXCEPT !.config = c], dexOidcConfig)} :
            /\ dexOidcConfig' = sent.relations
            /\ Dispatch("main", [Self EXCEPT !.config = c], sent.log, None)
  /\ UNCHANGED <<oauthService, pebbleHealthy, requirer, leader, canConnect, secret, oidcRel, ingressRel, ingressUrl>>

oidc_client_relation_changed ==
  /\ Budget /\ Spend
  /\ \E r \in OidcRels \ {oidcRel} :
       /\ oidcRel' = r
       /\ Dispatch("main", [Self EXCEPT !.oidc = r], <<>>, None)
  /\ UNCHANGED <<oauthService, pebbleHealthy, requirer, dexOidcConfig, leader, canConnect, config, secret, ingressRel, ingressUrl>>

ingress_relation_changed ==
  /\ Budget /\ Spend
  /\ \E r \in IngressRels \ {ingressRel} :
       /\ ingressRel' = r
       /\ Dispatch("main", [Self EXCEPT !.ingress = r], <<>>, None)
  /\ UNCHANGED <<oauthService, pebbleHealthy, requirer, dexOidcConfig, leader, canConnect, config, secret, oidcRel, ingressUrl>>

dex_pebble_ready ==
  /\ Budget /\ Spend
  /\ ~canConnect
  /\ canConnect' = TRUE
  /\ Dispatch("main", [Self EXCEPT !.can_connect = TRUE], <<>>, None)
  /\ UNCHANGED <<oauthService, pebbleHealthy, requirer, dexOidcConfig, leader, config, secret, oidcRel, ingressRel, ingressUrl>>

\* self._ingress.on.ready / self._ingress.on.revoked
ingress_ready ==
  /\ Budget /\ Spend
  /\ \E u \in IngressUrls \ {<<>>, ingressUrl} :
       /\ ingressUrl' = u
       /\ Dispatch("main", [Self EXCEPT !.ingress_url = u], <<>>, None)
  /\ UNCHANGED <<oauthService, pebbleHealthy, requirer, dexOidcConfig, leader, canConnect, config, secret, oidcRel, ingressRel>>

ingress_revoked ==
  /\ Budget /\ Spend
  /\ ingressUrl # <<>>
  /\ ingressUrl' = <<>>
  /\ Dispatch("main", [Self EXCEPT !.ingress_url = <<>>], <<>>, None)
  /\ UNCHANGED <<oauthService, pebbleHealthy, requirer, dexOidcConfig, leader, canConnect, config, secret, oidcRel, ingressRel>>

\* dex-oidc-config relation_created: a new relation with an empty data bag;
\* only DexOidcConfigProvider._send_data observes the event
dex_oidc_config_relation_created ==
  /\ Budget /\ Spend
  /\ Len(dexOidcConfig) < MaxOidcConfigRelations
  /\ \E sent \in {on_send_data(Self, Append(dexOidcConfig, None))} :
       /\ dexOidcConfig' = sent.relations
       /\ run' = [NoRun EXCEPT !.handler = "_send_data", !.leader = leader,
                               !.pre = Snapshot(Self), !.log = sent.log]
  /\ UNCHANGED <<oauthService, pebbleHealthy, requirer, leader, canConnect, config, state, secret, oidcRel, ingressRel,
                 ingressUrl, plan, file, status>>

(***************************************************************************)
(* Changes of the environment that dispatch no event to this unit.         *)
(***************************************************************************)
lose_leadership ==
  /\ Budget /\ Spend
  /\ leader
  /\ leader' = FALSE
  /\ run' = NoRun
  /\ UNCHANGED <<oauthService, pebbleHealthy, requirer, dexOidcConfig, canConnect, config, state, secret, oidcRel, ingressRel, ingressUrl,
                 plan, file, status>>

\* the dex service stops being able to start (line 192 will raise
\* pebble.ChangeError), or is able to start again; the charm is not told
service_fault ==
  /\ Budget /\ Spend
  /\ pebbleHealthy
  /\ pebbleHealthy' = FALSE
  /\ UNCHANGED <<oauthService, requirer, dexOidcConfig, leader, canConnect, config, state, secret,
                 oidcRel, ingressRel, ingressUrl, plan, file, status, run>>

service_repaired ==
  /\ Budget /\ Spend
  /\ ~pebbleHealthy
  /\ pebbleHealthy' = TRUE
  /\ UNCHANGED <<oauthService, requirer, dexOidcConfig, leader, canConnect, config, state, secret,
                 oidcRel, ingressRel, ingressUrl, plan, file, status, run>>

\* the workload container goes away; the next one starts from the image
container_down ==
  /\ Budget /\ Spend
  /\ canConnect
  /\ canConnect' = FALSE
  /\ plan' = {}
  /\ file' \in ImageFiles
  /\ run' = NoRun
  /\ UNCHANGED <<oauthService, pebbleHealthy, requirer, dexOidcConfig, leader, config, state, secret, oidcRel, ingressRel, ingressUrl, status>>

(***************************************************************************)
(* OAuth client event handlers.  Each returns the secret it leaves, the    *)
(* operations done before main, the credentials published over the oauth   *)
(* relation, the exception raised ("" if none) and whether it goes on to   *)
(* call self.main.                                                         *)
(***************************************************************************)
HandlerResult(sec, prelog, creds, raised, calls_main) ==
  [secret |-> sec, prelog |-> prelog, creds |-> creds, raised |-> raised,
   calls_main |-> calls_main]

\* mutant: a second secret with the label is stored beside the first
on_oauth_client_created_second_secret(self, event, id_seed, secret_seed) ==
  LET oauth_client_static_secret ==
        SecretContent(id_seed, secret_seed, event.redirect_uri, event.relation_id)
  IN IF ~self.leader THEN HandlerResult(self.secret, <<>>, None, "", FALSE)
     ELSE HandlerResult(Append(self.secret, oauth_client_static_secret),
                        <<"add_secret", "set_client_credentials">>,
                        Some([relation_id |-> event.relation_id,
                              client_id |-> oauth_client_static_secret["client-id"],
                              client_secret |-> oauth_client_static_secret["client-secret"]]),
                        "", TRUE)

\* Application.add_secret with a label that an existing secret of the
\* application already carries is refused by Juju (ModelError).
on_oauth_client_created(self, event, id_seed, secret_seed) ==
  LET oauth_client_static_secret ==
        SecretContent(id_seed, secret_seed, event.redirect_uri, event.relation_id)
  IN IF ~self.leader THEN HandlerResult(self.secret, <<>>, None, "", FALSE)
     ELSE IF IsSome(self.secret) THEN HandlerResult(self.secret, <<>>, None, "ModelError", FALSE)
     ELSE HandlerResult(Some(oauth_client_static_secret),
                        <<"add_secret", "set_client_credentials">>,
                        Some([relation_id |-> event.relation_id,
                              client_id |-> oauth_client_static_secret["client-id"],
                              client_secret |-> oauth_client_static_secret["client-secret"]]),
                        "", TRUE)

\* Secret.set_content validates the keys against Juju's pattern
\* ^([a-z](?:-?[a-z0-9]){2,})$ and raises ValueError before anything is stored.
ValidSecretKey(k) == k \in SecretKeys

on_oauth_client_changed(self, event) ==
  LET content == [k \in {"redirectURIs"} |-> <<event.redirect_uri>>]
  IN IF ~IsSome(self.secret)
       THEN HandlerResult(self.secret, <<>>, None, "SecretNotFoundError", FALSE)
     ELSE IF \E k \in DOMAIN content : ~ValidSecretKey(k)
       THEN HandlerResult(self.secret, <<>>, None, "ValueError", FALSE)
     ELSE HandlerResult(Some(content), <<"set_content">>, None, "", TRUE)

\* mutant: the secret survives its removal
on_oauth_client_deleted_keeps_secret(self) ==
  IF self.leader /\ IsSome(self.secret)
    THEN HandlerResult(self.secret, <<"remove_all_revisions">>, None, "", TRUE)
    ELSE HandlerResult(self.secret, <<>>, None, "", TRUE)

\* mutant: SecretNotFoundError is not caught
on_oauth_client_deleted_uncaught(self) ==
  IF self.leader /\ IsSome(self.secret)
    THEN HandlerResult(None, <<"remove_all_revisions">>, None, "", TRUE)
  ELSE IF self.leader
    THEN HandlerResult(self.secret, <<>>, None, "SecretNotFoundError", FALSE)
  ELSE HandlerResult(self.secret, <<>>, None, "", TRUE)

on_oauth_client_deleted(self) ==
  IF self.leader /\ IsSome(self.secret)
    THEN HandlerResult(None, <<"remove_all_revisions">>, None, "", TRUE)
    ELSE HandlerResult(self.secret, <<>>, None, "", TRUE)

Handle(handler, h) ==
  /\ secret' = h.secret
  /\ IF h.calls_main
       THEN Dispatch(handler, [Self EXCEPT !.secret = h.secret], h.prelog, h.creds)
       ELSE Aborted(handler, Self, h.prelog, h.raised)
  /\ UNCHANGED <<oauthService, pebbleHealthy, requirer, leader, canConnect, config, oidcRel, ingressRel, ingressUrl, dexOidcConfig>>

Events == [redirect_uri : RedirectUris, relation_id : RelationIds]

client_created ==
  /\ Budget /\ Spend
  /\ \E event \in Events, id_seed \in Seeds, secret_seed \in Seeds :
       \E h \in {on_oauth_client_created(Self, event, id_seed, secret_seed)} :
          Handle("client_created", h)

client_changed ==
  /\ Budget /\ Spend
  /\ \E event \in Events :
       \E h \in {on_oauth_client_changed(Self, event)} : Handle("client_changed", h)

client_deleted ==
  /\ Budget /\ Spend
  /\ \E h \in {on_oauth_client_deleted(Self)} : Handle("client_deleted", h)

(***************************************************************************)
(* DexOidcConfigRequirerWrapper of a charm at the requiring end of         *)
(* dex-oidc-config.  requirer.relations: the remote application's data bag *)
(* of each dex-oidc-config relation;                                       *)
(* requirer.result: what the last get_data call raised or returned.        *)
(***************************************************************************)
DEFAULT_RELATION_NAME == "dex-oidc-config"

\* a data bag: for each key the value it holds, None for a key it lacks
BagKeys == {"issuer-url", "other-key"}
BagValues == {<<"http://", "my-dex.io", "/dex">>, <<"http://", "dex-auth.kubeflow.svc:5556", "/dex">>}
RemoteBags == [BagKeys -> {None} \cup {Some(v) : v \in BagValues}]
EmptyBag == [k \in BagKeys |-> None]
HasKey(bag, k) == bag[k] # None

NoResult == [raised |-> "", message |-> <<>>, value |-> None]
\* relations: the remote data bags; result: what the last get_data call
\* returned or raised; event: the last event dispatched to the requirer
\* charm; emitted: the DexOidcConfigUpdatedEvents emitted during that
\* dispatch; handler_raised: the exception that left the library's handler
NoRequirer ==
  [relations |-> <<>>, result |-> NoResult, event |-> "", emitted |-> 0,
   handler_raised |-> ""]

Raised(name, message) == [raised |-> name, message |-> message, value |-> None]

\* mutant: an empty data bag is not checked for
validate_relation_unchecked_data(relation) ==
  IF relation = None THEN
    Raised("DexOidcConfigRelationMissingError",
           <<"Missing relation with a Dex OIDC config provider.">>)
  ELSE NoResult

\* lines 237-263: the error _validate_relation raises, or NoResult
validate_relation(relation) ==
  IF relation = None THEN
    Raised("DexOidcConfigRelationMissingError",
           <<"Missing relation with a Dex OIDC config provider.">>)
  ELSE IF Value(relation) = EmptyBag THEN
    Raised("DexOidcConfigRelationDataMissingError",
           <<"No data found in relation ", DEFAULT_RELATION_NAME, " data bag.">>)
  ELSE NoResult

\* Model.get_relation: None without a relation, the relation when there is
\* one, TooManyRelatedAppsError when there are more
get_relation(relations) ==
  IF Len(relations) = 0 THEN [raised |-> "", relation |-> None]
  ELSE IF Len(relations) = 1 THEN [raised |-> "", relation |-> Some(relations[1])]
  ELSE [raised |-> "TooManyRelatedAppsError", relation |-> None]

\* lines 265-282; relation_data["issuer-url"] of a bag without the key
\* raises KeyError
get_data(relations) ==
  LET found == get_relation(relations)
      relation == found.relation
  IN IF found.raised # "" THEN Raised(found.raised, <<>>)
     ELSE IF validate_relation(relation).raised # "" THEN validate_relation(relation)
     ELSE IF ~HasKey(Value(relation), "issuer-url") THEN Raised("KeyError", <<"issuer-url">>)
     ELSE [raised |-> "", message |-> <<>>,
           value |-> Some([issuer_url |-> Value(Value(relation)["issuer-url"])])]

CharmUnchanged ==
  UNCHANGED <<leader, canConnect, config, state, secret, oidcRel, ingressRel, ingressUrl,
              plan, file, status, dexOidcConfig, pebbleHealthy, oauthService, run, changes>>

\* the events the requirer charm passes as refresh_events: a relation event
\* and an event that is not one
RefreshEvents == {"relation_joined", "config_changed"}
IsRelationEvent(event) == event \in {"relation_joined", "relation_changed", "relation_broken"}

\* DexOidcConfigRequirer._on_relation_broken: emits updated with event.relation
on_relation_broken(event) == [emitted |-> 1, raised |-> ""]

\* DexOidcConfigRequirer._on_relation_changed, which also observes every
\* event of refresh_events: emits updated with event.relation; an event that
\* is no RelationEvent has no attribute `relation` (AttributeError)
on_relation_changed(event) ==
  IF IsRelationEvent(event) THEN [emitted |-> 1, raised |-> ""]
  ELSE [emitted |-> 0, raised |-> "AttributeError"]

\* one dispatch to the requirer charm that left the relations `relations`
Dispatched(relations, event, h) ==
  [relations |-> relations, result |-> NoResult, event |-> event,
   emitted |-> h.emitted, handler_raised |-> h.raised]

\* a provider application is related; its data bag is whatever it published;
\* the library observes no relation_created
requirer_relation_created ==
  /\ Len(requirer.relations) < MaxRequirerRelations
  /\ \E bag \in RemoteBags :
       requirer' = Dispatched(Append(requirer.relations, bag), "relation_created",
                              [emitted |-> 0, raised |-> ""])
  /\ CharmUnchanged

\* the remote application changes its data bag
requirer_relation_changed ==
  /\ \E i \in DOMAIN requirer.relations, bag \in RemoteBags :
       /\ bag # requirer.relations[i]
       /\ requirer' = Dispatched([requirer.relations EXCEPT ![i] = bag], "relation_changed",
                                 on_relation_changed("relation_changed"))
  /\ CharmUnchanged

\* the last relation is removed
requirer_relation_broken ==
  /\ requirer.relations # <<>>
  /\ requirer' = Dispatched(SubSeq(requirer.relations, 1, Len(requirer.relations) - 1),
                            "relation_broken", on_relation_broken("relation_broken"))
  /\ CharmUnchanged

\* an event of refresh_events occurs (relation_joined: on an existing relation)
requirer_refresh_event ==
  /\ \E event \in RefreshEvents :
       /\ IsRelationEvent(event) => requirer.relations # <<>>
       /\ requirer' = Dispatched(requirer.relations, event, on_relation_changed(event))
  /\ CharmUnchanged

\* the requirer charm calls DexOidcConfigRequirer.get_data()
requirer_get_data ==
  /\ requirer' = [requirer EXCEPT !.result = get_data(requirer.relations), !.event = "",
                                  !.emitted = 0, !.handler_raised = ""]
  /\ CharmUnchanged

(***************************************************************************)
(* OAuthRelationService (src/oauth.py), on the application's secret store  *)
(* and the unit's leadership.                                              *)
(***************************************************************************)
\* len() of a credential string: secrets.token_hex(16) is 32 characters
StrLen(s) == IF s # <<>> /\ s[1] = "token_hex" THEN 32 ELSE 0

\* call: the method called; leader: is_leader() during the call; pre: the
\* secret store before it; log: its writes; raised: the exception that left
\* it; value: the OAuthClient returned
NoCall ==
  [call |-> "", leader |-> FALSE, pre |-> None, log |-> <<>>, raised |-> "", value |-> None]

CallResult(sec, log, raised, value) ==
  [secret |-> sec, log |-> log, raised |-> raised, value |-> value]

\* OAuthClient(client_id=..., client_secret=...): both fields are validated
\* to be 32 characters long; ValidationError becomes RuntimeError
OAuthClient(sec, log, content) ==
  IF StrLen(content["client-id"]) = 32 /\ StrLen(content["client-secret"]) = 32
    THEN CallResult(sec, log, "",
                    Some([client_id |-> content["client-id"],
                          client_secret |-> content["client-secret"]]))
    ELSE CallResult(sec, log, "RuntimeError", None)

get_oauth_static_client(is_leader, sec, id_seed, secret_seed) ==
  LET oauth_client_static_secret ==
        [k \in {"client-id", "client-secret"} |->
           IF k = "client-id" THEN token_hex(id_seed) ELSE token_hex(secret_seed)]
  IN IF IsSome(sec) THEN OAuthClient(sec, <<>>, Value(sec))
     ELSE IF ~is_leader THEN CallResult(sec, <<>>, "RuntimeError", None)
     ELSE OAuthClient(Some(oauth_client_static_secret), <<"add_secret">>,
                      oauth_client_static_secret)

\* Secret.remove_all_revisions on an application secret by a unit that is
\* not the leader is refused: as SecretNotFoundError, which the method
\* catches, or as ModelError, which it does not.
RemoveRefusals == {"SecretNotFoundError", "ModelError"}

remove_oauth_static_client(is_leader, sec, refusal) ==
  IF ~IsSome(sec) THEN CallResult(sec, <<>>, "", None)
  ELSE IF is_leader THEN CallResult(None, <<"remove_all_revisions">>, "", None)
  ELSE CallResult(sec, <<>>, IF refusal = "SecretNotFoundError" THEN "" ELSE refusal, None)

ServiceUnchanged ==
  UNCHANGED <<canConnect, config, state, oidcRel, ingressRel, ingressUrl, plan, file, status,
              dexOidcConfig, requirer, pebbleHealthy, run, changes>>

ServiceCall(call, r) ==
  /\ secret' = r.secret
  /\ oauthService' = [call |-> call, leader |-> leader, pre |-> secret, log |-> r.log,
                      raised |-> r.raised, value |-> r.value]
  /\ UNCHANGED leader
  /\ ServiceUnchanged

call_get_oauth_static_client ==
  \E id_seed \in Seeds, secret_seed \in Seeds :
     ServiceCall("get_oauth_static_client",
                 get_oauth_static_client(leader, secret, id_seed, secret_seed))

call_remove_oauth_static_client ==
  \E refusal \in RemoveRefusals :
     ServiceCall("remove_oauth_static_client",
                 remove_oauth_static_client(leader, secret, refusal))

\* leadership moves to or away from this unit between two calls
leadership_changed ==
  /\ leader' = ~leader
  /\ UNCHANGED <<secret, oauthService>>
  /\ ServiceUnchanged

(***************************************************************************)
(* The charm after deployment, and its events.                             *)
(***************************************************************************)
Init ==
  /\ leader \in BOOLEAN
  /\ canConnect \in BOOLEAN
  /\ config = DefaultConfig
  /\ state = None
  /\ secret = None
  /\ oidcRel = [status |-> "absent", n |-> 0]
  /\ ingressRel = [status |-> "absent"]
  /\ ingressUrl = <<>>
  /\ plan = {}
  /\ file \in ImageFiles
  /\ status = UnknownStatus
  /\ dexOidcConfig = <<>>
  /\ requirer = NoRequirer
  /\ pebbleHealthy = TRUE
  /\ oauthService = NoCall
  /\ run = NoRun
  /\ changes = 0

Next ==
  \/ on_main_event
  \/ leader_elected
  \/ config_changed
  \/ oidc_client_relation_changed
  \/ ingress_relation_changed
  \/ dex_pebble_ready
  \/ ingress_ready
  \/ ingress_revoked
  \/ client_created
  \/ client_changed
  \/ client_deleted
  \/ dex_oidc_config_relation_created
  \/ lose_leadership
  \/ container_down

Spec == Init /\ [][Next]_vars

\* The dex service entry an earlier revision of the charm applied: another
\* command, another user, one more environment variable.
StaleLayer ==
  {[name |-> container_name,
    service |-> [override |-> "replace",
                 summary |-> "entrypoint of the dex-auth-operator image",
                 command |-> <<entrypoint, " dex serve ", "/etc/dex/config.yaml">>,
                 startup |-> "disabled",
                 user |-> "root",
                 environment |-> [KUBERNETES_POD_NAMESPACE |-> Namespace,
                                  KUBERNETES_POD_NAME |-> "dex-auth-0"]]]}

\* The charm upgraded in place: the container still runs with the plan the
\* earlier revision applied.
InitUpgrade ==
  /\ leader \in BOOLEAN
  /\ canConnect = TRUE
  /\ config = DefaultConfig
  /\ state = None
  /\ secret = None
  /\ oidcRel = [status |-> "absent", n |-> 0]
  /\ ingressRel = [status |-> "absent"]
  /\ ingressUrl = <<>>
  /\ plan = StaleLayer
  /\ file \in ImageFiles
  /\ status = UnknownStatus
  /\ dexOidcConfig = <<>>
  /\ requirer = NoRequirer
  /\ pebbleHealthy = TRUE
  /\ oauthService = NoCall
  /\ run = NoRun
  /\ changes = 0

SpecUpgrade == InitUpgrade /\ [][Next]_vars

\* The charm on a workload whose service may fail to restart.
NextRecovery ==
  \/ Next
  \/ service_fault
  \/ service_repaired

SpecRecovery == Init /\ [][NextRecovery]_vars

(***************************************************************************)
(* One reconciliation from every combination of inputs: the issuer URL     *)
(* resolver (SpecIssuer) and the config compiler (SpecCompile) on their    *)
(* whole input domains; the only event is one that changes nothing.        *)
(***************************************************************************)
InitReconcile ==
  /\ leader = TRUE
  /\ canConnect = TRUE
  /\ state = None
  /\ ingressRel = [status |-> "absent"]
  /\ plan = {}
  /\ file = Some(ImageConfig)
  /\ status = UnknownStatus
  /\ dexOidcConfig = <<>>
  /\ requirer = NoRequirer
  /\ pebbleHealthy = TRUE
  /\ oauthService = NoCall
  /\ run = NoRun
  /\ changes = 0

InitIssuer ==
  /\ InitReconcile
  /\ config \in {c \in Configs : /\ c.connectors = DefaultConfig.connectors
                                 /\ c.enable_password_db
                                 /\ c.static_username = DefaultConfig.static_username
                                 /\ c.static_password = DefaultConfig.static_password}
  /\ ingressUrl \in IngressUrls
  /\ secret = None
  /\ oidcRel = [status |-> "absent", n |-> 0]

SpecIssuer == InitIssuer /\ [][on_main_event]_vars

Secrets ==
  {SecretContent(i, j, u, r) : i \in Seeds, j \in Seeds, u \in RedirectUris, r \in RelationIds}

InitCompile ==
  /\ InitReconcile
  /\ config \in {c \in Configs : /\ c.public_url = DefaultConfig.public_url
                                 /\ c.port = DefaultConfig.port}
  /\ ingressUrl \in IngressUrls
  /\ secret \in {None} \cup {Some(c) : c \in Secrets}
  /\ oidcRel \in OidcRels

SpecCompile == InitCompile /\ [][on_main_event]_vars

\* The requirer end on its own: relations come, change and go, and the
\* requirer charm calls get_data at any moment.
InitRequirer ==
  /\ InitReconcile
  /\ config = DefaultConfig
  /\ ingressUrl = <<>>
  /\ secret = None
  /\ oidcRel = [status |-> "absent", n |-> 0]

NextRequirer ==
  \/ requirer_relation_created
  \/ requirer_relation_changed
  \/ requirer_relation_broken
  \/ requirer_refresh_event
  \/ requirer_get_data

SpecRequirer == InitRequirer /\ [][NextRequirer]_vars

\* OAuthRelationService on its own: the store is empty or holds the secret a
\* client-created event left.
InitOAuthService ==
  /\ InitReconcile
  /\ config = DefaultConfig
  /\ ingressUrl = <<>>
  /\ oidcRel = [status |-> "absent", n |-> 0]
  /\ secret \in {None} \cup {Some(c) : c \in Secrets}

NextOAuthService ==
  \/ call_get_oauth_static_client
  \/ call_remove_oauth_static_client
  \/ leadership_changed

SpecOAuthService == InitOAuthService /\ [][NextOAuthService]_vars

(***************************************************************************)
(* Properties.                                                             *)
(***************************************************************************)
\* the value of a key of a dumped YAML mapping
yaml_get(doc, key) == doc[CHOOSE i \in DOMAIN doc : doc[i][1] = key][2]

Did(op) == Count(run.log, op)
NoWorkloadWrite == Did("add_layer") = 0 /\ Did("push") = 0 /\ Did("restart") = 0

\* the configuration passes the validation gate of the config compiler
ValidConfiguration ==
  config.enable_password_db \/ config.connectors \notin {"", "[]"}

\* the oidc-client relation is absent or has negotiated a version
OidcNegotiated == oidcRel.status \in {"absent", "ok"}

\* C1 (leadership gate): a run of Operator.main on a unit that is not the
\* leader writes no layer and no config file, does not restart, does not
\* initialise the identity state, writes no relation data, leaves the
\* secret as it was, and ends with status Waiting("Waiting for leadership").
C1_LeadershipGate ==
  (run.main /\ ~run.leader) =>
     /\ NoWorkloadWrite
     /\ Did("state_init") = 0 /\ state = run.pre.state
     /\ plan = run.pre.plan /\ file = run.pre.file
     /\ Did("send_data") = 0 /\ Did("set_provider_info") = 0
     /\ run.ingress_data = None /\ run.oauth_info = None /\ run.creds = None
     /\ secret = run.pre.secret
     /\ run.raised = ""
     /\ status = WaitingStatus("Waiting for leadership")

C1_Witness ==
  /\ run.main /\ ~run.leader /\ run.handler = "main"
  /\ canConnect /\ IsSome(file) /\ ValidConfiguration
  /\ status = WaitingStatus("Waiting for leadership")

C3_ChangeDetection ==
  (run.main /\ IsSome(run.doc) /\ run.pre.plan = dex_auth_layer /\ IsSome(run.pre.file)) =>
     /\ Did("add_layer") = 0
     /\ plan = run.pre.plan
     /\ IF run.pre.file = run.doc
          THEN Did("push") = 0 /\ Did("restart") = 1 /\ file = run.pre.file
          ELSE Did("push") = 1 /\ file = run.doc

C3_Witness ==
  /\ run.main /\ IsSome(run.doc) /\ run.pre.plan = dex_auth_layer
  /\ IsSome(run.pre.file) /\ run.pre.file # run.doc
  /\ Did("push") = 1 /\ Did("add_layer") = 0 /\ Did("restart") = 1

\* configuration, relation data, identity state and secret
Inputs == <<config, oidcRel, ingressRel, ingressUrl, state, secret>>

\* C4 (idempotence over a sequence): when a run of main has ended Active and
\* the next run of main finds configuration, relation data, identity state
\* and secret unchanged, that run compiles the same document, does no
\* add_layer and no push, restarts once, and leaves plan, config file and
\* status (Active) as the first run left them.
C4_Idempotence ==
  [][(/\ run.main /\ run.raised = "" /\ status = ActiveStatus
      /\ run'.main /\ Inputs' = Inputs)
     => (/\ run'.doc = run.doc
         /\ Count(run'.log, "add_layer") = 0
         /\ Count(run'.log, "push") = 0
         /\ Count(run'.log, "restart") = 1
         /\ plan' = plan /\ file' = file
         /\ status' = ActiveStatus /\ status' = status)]_vars

\* a second run in a row: it found the status Active and the file it compiled
C4_Witness ==
  /\ run.main /\ run.handler = "main" /\ run.raised = ""
  /\ run.pre.status = ActiveStatus /\ status = ActiveStatus
  /\ run.pre.state = state /\ run.pre.file = run.doc /\ file = run.doc
  /\ Did("restart") = 1 /\ Did("push") = 0 /\ Did("add_layer") = 0

GateMessage == "Please add a connectors configuration to proceed without a static login."

\* C5 as stated: when enable-password-db is false and the parsed connectors
\* value is empty, a run of main that reaches the config compiler (leader,
\* container reachable) ends Blocked with the gate's message and has done no
\* layer write, no config-file write and no restart.
C5_AsStated ==
  (run.main /\ run.leader /\ canConnect /\ ~ValidConfiguration) =>
     /\ status = BlockedStatus(GateMessage)
     /\ NoWorkloadWrite

\* C5 (validation gate), amended: when enable-password-db is false, the
\* parsed connectors value is empty and the oidc-client relation is absent
\* or has negotiated a version, a run of main that reaches the config
\* compiler compiles no document, ends Blocked with the gate's message, and
\* has done no layer write, no config-file write and no restart; while the
\* oidc-client relation has not negotiated a version the run ends with that
\* negotiation's status instead, also without any of these writes.
C5_ValidationGate ==
  (run.main /\ run.leader /\ canConnect /\ ~ValidConfiguration) =>
     /\ run.doc = None /\ run.raised = ""
     /\ NoWorkloadWrite /\ plan = run.pre.plan /\ file = run.pre.file
     /\ OidcNegotiated => status = BlockedStatus(GateMessage)
     /\ oidcRel.status = "no_versions" => status.type = "waiting"
     /\ oidcRel.status = "incompatible" =>
          (status.type = "blocked" /\ status # BlockedStatus(GateMessage))

C5_Witness ==
  /\ run.main /\ run.leader /\ canConnect /\ OidcNegotiated
  /\ ~config.enable_password_db /\ config.connectors = "[]"
  /\ status = BlockedStatus(GateMessage)

\* C6 (compiled fields): a configuration that passes the validation gate is
\* compiled whenever the compiler is reached with the oidc-client relation
\* absent or negotiated, and every compiled document has enablePasswordDB
\* equal to the enable-password-db option, connectors equal to the parsed
\* connectors option, and staticPasswords with exactly one entry when
\* enable-password-db is true and empty when it is false.
C6_CompiledFields ==
  /\ (run.main /\ run.leader /\ canConnect /\ ValidConfiguration /\ OidcNegotiated)
       => IsSome(run.doc)
  /\ (run.main /\ IsSome(run.doc)) =>
       /\ ValidConfiguration
       /\ yaml_get(Value(run.doc), "enablePasswordDB") = config.enable_password_db
       /\ yaml_get(Value(run.doc), "connectors") = yaml_safe_load(config.connectors)
       /\ Len(yaml_get(Value(run.doc), "staticPasswords"))
            = (IF config.enable_password_db THEN 1 ELSE 0)

C6_Witness ==
  /\ run.main /\ IsSome(run.doc)
  /\ ~config.enable_password_db /\ config.connectors = "connector01"
  /\ yaml_get(Value(run.doc), "staticPasswords") = <<>>
  /\ yaml_get(Value(run.doc), "connectors") = [kind |-> "str", items |-> <<"connector01">>]

\* the issuer URL the precedence law prescribes for the current inputs
PrecedenceIssuer ==
  CASE config.issuer_url # <<>> -> config.issuer_url
    [] config.issuer_url = <<>> /\ config.public_url # <<>> ->
         (IF Head(config.public_url) \in {"http://", "https://"}
            THEN config.public_url
            ELSE <<"http://">> \o config.public_url) \o <<"/dex">>
    [] config.issuer_url = <<>> /\ config.public_url = <<>> /\ ingressUrl # <<>> -> ingressUrl
    [] OTHER ->
         <<"http://", "dex-auth", ".", "kubeflow", ".svc:", ToString(config.port), "/dex">>

\* C7 (issuer precedence law): for every combination of presence and absence
\* of issuer-url, public-url and an ingress URL, _issuer_url is issuer-url
\* verbatim if set; else public-url, prefixed with http:// when it has no
\* http:// or https:// scheme, followed by /dex; else the ingress URL; else
\* http://<app>.<namespace>.svc:<port>/dex; and that is the issuer of every
\* compiled document.
C7_IssuerPrecedence ==
  /\ issuer_url(Self) = PrecedenceIssuer
  /\ (run.main /\ IsSome(run.doc)) => yaml_get(Value(run.doc), "issuer") = PrecedenceIssuer

C7_Witness ==
  /\ run.main /\ IsSome(run.doc)
  /\ config.issuer_url = <<>> /\ config.public_url = <<"my-dex.io:5557">> /\ ingressUrl # <<>>
  /\ yaml_get(Value(run.doc), "issuer") = <<"http://", "my-dex.io:5557", "/dex">>

\* the number of clients the oidc-client relation registers
NumOidcClients == IF oidcRel.status = "ok" THEN oidcRel.n ELSE 0

\* C8 (static client ordering): the staticClients list of a compiled
\* document is the registered OIDC clients in their order, followed by the
\* OAuth static client as the last element when the OAuth secret exists, and
\* exactly the OIDC clients when it does not; the OAuth static client
\* appears at most once.
C8_StaticClientOrdering ==
  (run.main /\ IsSome(run.doc)) =>
     LET clients == yaml_get(Value(run.doc), "staticClients")
     IN /\ Len(clients) = NumOidcClients + (IF IsSome(secret) THEN 1 ELSE 0)
        /\ \A i \in 1..NumOidcClients : clients[i] = OidcClient(i)
        /\ IsSome(secret) =>
             /\ clients[Len(clients)] = OAuthStaticClient(Value(secret))
             /\ Cardinality({i \in DOMAIN clients :
                               clients[i].id = Value(secret)["client-id"]}) = 1
        /\ ~IsSome(secret) => clients = [i \in 1..NumOidcClients |-> OidcClient(i)]

C8_Witness ==
  /\ run.main /\ IsSome(run.doc) /\ IsSome(secret) /\ oidcRel.status = "ok" /\ oidcRel.n = 2
  /\ Len(yaml_get(Value(run.doc), "staticClients")) = 3
  /\ yaml_get(Value(run.doc), "staticClients")[3] = OAuthStaticClient(Value(secret))

\* C9 (identity state stability): once username, password, salt and user_id
\* are stored, no step (reconciliation after any event, any config change)
\* changes any of the four stored fields.
C9_StateStability ==
  [][IsSome(state) =>
       /\ IsSome(state')
       /\ Value(state').username = Value(state).username
       /\ Value(state').password = Value(state).password
       /\ Value(state').salt = Value(state).salt
       /\ Value(state').user_id = Value(state).user_id]_vars

C9_Witness ==
  /\ run.main /\ run.handler = "main" /\ run.raised = ""
  /\ IsSome(run.pre.state) /\ state = run.pre.state /\ Did("state_init") = 0
  /\ config # DefaultConfig

\* the staticPasswords entry of the last compiled document
CompiledEntry == yaml_get(Value(run.doc), "staticPasswords")[1]
HasCompiledEntry == run.main /\ IsSome(run.doc) /\ config.enable_password_db

\* C10 (overrides do not touch storage): the staticPasswords entry uses the
\* static-username option, when set, for email and username and the
\* static-password option, when set, for the hashed password, while userID
\* is the stored user_id and the stored username and password keep their
\* generated values; a run after the overrides are cleared compiles the
\* entry from the values that were stored before it.
C10_OverridesFrame ==
  /\ [](HasCompiledEntry =>
         /\ \E seed \in Seeds : Value(state) = GeneratedState(seed)
         /\ CompiledEntry.username =
              (IF config.static_username # "" THEN config.static_username
               ELSE Value(state).username)
         /\ CompiledEntry.email = CompiledEntry.username
         /\ CompiledEntry.hash =
              <<"bcrypt", Value(state).salt,
                IF config.static_password # <<>> THEN config.static_password
                ELSE Value(state).password>>
         /\ CompiledEntry.userID = Value(state).user_id)
  /\ [][(/\ IsSome(state) /\ HasCompiledEntry'
         /\ config'.static_username = "" /\ config'.static_password = <<>>)
        => (/\ CompiledEntry'.username = Value(state).username
            /\ CompiledEntry'.email = Value(state).username
            /\ CompiledEntry'.hash = <<"bcrypt", Value(state).salt, Value(state).password>>
            /\ CompiledEntry'.userID = Value(state).user_id)]_vars

C10_Witness ==
  /\ HasCompiledEntry /\ IsSome(run.pre.state)
  /\ config.static_username = "new-user" /\ config.static_password = <<"new-pass">>
  /\ CompiledEntry.username = "new-user"
  /\ CompiledEntry.hash = <<"bcrypt", Value(state).salt, <<"new-pass">>>>
  /\ Value(state).username = "admin" /\ Value(state).password # <<"new-pass">>

\* the position in the run's log of the first status the run set, 0 if none
FirstStatusSet ==
  IF \E i \in DOMAIN run.log : run.log[i] \in {"status:maintenance", "status:error", "status:active"}
    THEN CHOOSE i \in DOMAIN run.log :
           /\ run.log[i] \in {"status:maintenance", "status:error", "status:active"}
           /\ \A j \in 1..(i - 1) :
                run.log[j] \notin {"status:maintenance", "status:error", "status:active"}
    ELSE 0

\* C11 as stated: in every run of Operator.main, on leader and non-leader
\* units alike, the first status the run sets is
\* Maintenance("Configuring dex charm"), before any precondition has ended
\* the run.
C11_AsStated ==
  run.main =>
     /\ FirstStatusSet # 0
     /\ run.log[FirstStatusSet] = "status:maintenance"

\* a non-leader run of main: it ends Waiting and never set Maintenance
C11_Witness ==
  /\ run.main /\ ~run.leader /\ run.raised = ""
  /\ Did("status:maintenance") = 0
  /\ status = WaitingStatus("Waiting for leadership")

\* the ingress relation is absent or has negotiated a version
IngressNegotiated == ingressRel.status \in {"absent", "ok"}

\* the status that leadership, container readiness, the relations and the
\* configuration dictate for a run of main that returns
DictatedStatus ==
  CASE ~run.leader -> WaitingStatus("Waiting for leadership")
    [] run.leader /\ ~canConnect -> WaitingStatus("Waiting for pod startup to complete")
    [] run.leader /\ canConnect /\ oidcRel.status = "no_versions" ->
         [type |-> "waiting", msg |-> NoVersionsListedMsg("oidc-client")]
    [] run.leader /\ canConnect /\ oidcRel.status = "incompatible" ->
         [type |-> "blocked", msg |-> NoCompatibleVersionsMsg("oidc-client")]
    [] run.leader /\ canConnect /\ OidcNegotiated /\ ~ValidConfiguration ->
         BlockedStatus(GateMessage)
    [] run.leader /\ canConnect /\ OidcNegotiated /\ ValidConfiguration
         /\ ingressRel.status = "no_versions" ->
         [type |-> "waiting", msg |-> NoVersionsListedMsg("ingress")]
    [] run.leader /\ canConnect /\ OidcNegotiated /\ ValidConfiguration
         /\ ingressRel.status = "incompatible" ->
         [type |-> "blocked", msg |-> NoCompatibleVersionsMsg("ingress")]
    [] OTHER -> ActiveStatus

\* C12 (status translation): in a run of main that returns, an
\* ErrorWithStatus raised by the leader check, the container check, a
\* relation's version negotiation or the config validation is caught and is
\* the last status the run sets, equal to the error's status; the final
\* status is Active exactly when none was raised (leader, reachable
\* container, negotiated relations, valid configuration); the run never
\* ends in Maintenance.
C12_StatusTranslation ==
  (run.main /\ run.raised = "") =>
     /\ status.type \in {"active", "waiting", "blocked"}
     /\ status = DictatedStatus
     /\ run.log[Len(run.log)] \in {"status:error", "status:active"}
     /\ Did("status:error") + Did("status:active") = 1
     /\ status = ActiveStatus <=>
          /\ Did("status:error") = 0
          /\ run.leader /\ canConnect /\ OidcNegotiated /\ ValidConfiguration
          /\ IngressNegotiated
          /\ IsSome(state) /\ Did("compile") = 1 /\ Did("restart") = 1

C12_Witness ==
  /\ run.main /\ run.raised = "" /\ run.leader /\ canConnect /\ ValidConfiguration
  /\ OidcNegotiated /\ ingressRel.status = "incompatible"
  /\ Did("restart") = 1 /\ Did("status:error") = 1
  /\ status.type = "blocked" /\ status # BlockedStatus(GateMessage)

\* C13 (precondition order): leadership is checked before container
\* reachability: a run of main on a non-leader with an unreachable
\* container ends in Waiting("Waiting for leadership"), and a run on a
\* leader with an unreachable container ends in
\* Waiting("Waiting for pod startup to complete") without compiling the
\* config, writing the layer, writing the config file or restarting.
C13_PreconditionOrder ==
  (run.main /\ ~canConnect) =>
     /\ run.raised = ""
     /\ run.doc = None /\ Did("compile") = 0
     /\ NoWorkloadWrite /\ plan = run.pre.plan /\ file = run.pre.file
     /\ ~run.leader => status = WaitingStatus("Waiting for leadership")
     /\ run.leader => status = WaitingStatus("Waiting for pod startup to complete")

C13_Witness ==
  /\ run.main /\ run.leader /\ ~canConnect /\ ValidConfiguration
  /\ Did("status:maintenance") = 1 /\ Did("compile") = 0
  /\ status = WaitingStatus("Waiting for pod startup to complete")

\* the operations that write to the secret store or to a relation
WriteOps ==
  {"add_secret", "set_content", "remove_all_revisions", "set_client_credentials",
   "send_issuer_url", "send_data", "set_provider_info"}

\* C14 (non-leader writes nothing): whatever handler runs on a unit that is
\* not the leader (main, client-created, client-changed, client-deleted,
\* the dex-oidc-config _send_data), the step leaves the OAuth static-client
\* secret as it was and writes no relation data: no dex-oidc-config data
\* bag changes, and nothing is sent over the ingress and oauth relations.
C14_NonLeaderWritesNothing ==
  [][(run'.handler # "" /\ ~run'.leader) =>
       /\ secret' = secret
       /\ \A i \in DOMAIN dexOidcConfig : dexOidcConfig'[i] = dexOidcConfig[i]
       /\ \A i \in DOMAIN dexOidcConfig' \ DOMAIN dexOidcConfig : dexOidcConfig'[i] = None
       /\ run'.ingress_data = None /\ run'.oauth_info = None /\ run'.creds = None
       /\ \A i \in DOMAIN run'.log : run'.log[i] \notin WriteOps]_vars

C14_Witness ==
  /\ run.handler = "client_changed" /\ ~run.leader /\ ~leader
  /\ IsSome(secret) /\ secret = run.pre.secret

\* C15 as stated: a client-created event handled on the leader leaves one
\* secret labelled oauth.static.client that holds client-id, client-secret,
\* the event's redirect-uri and the name oauth_<relation id>, the
\* credentials published to the relation are the persisted client-id and
\* client-secret, and a reconciliation was run; handled on a non-leader it
\* creates no secret, publishes nothing and runs no reconciliation.
C15_AsStated ==
  run.handler = "client_created" =>
     IF run.leader
       THEN /\ Len(secret) = 1
            /\ DOMAIN Value(secret) = {"client-id", "client-secret", "redirect-uri", "name"}
            /\ Value(secret)["redirect-uri"] \in RedirectUris
            /\ \E r \in RelationIds : Value(secret)["name"] = <<"oauth_", ToString(r)>>
            /\ Did("add_secret") = 1 /\ Did("set_client_credentials") = 1
            /\ IsSome(run.creds)
            /\ Value(run.creds).client_id = Value(secret)["client-id"]
            /\ Value(run.creds).client_secret = Value(secret)["client-secret"]
            /\ run.main
       ELSE /\ secret = run.pre.secret /\ Did("add_secret") = 0
            /\ run.creds = None /\ ~run.main

\* client-created on a leader that already holds the secret: the handler
\* raised, published nothing and ran no reconciliation
C15_Witness ==
  /\ run.handler = "client_created" /\ run.leader /\ IsSome(run.pre.secret)
  /\ run.raised = "ModelError" /\ ~run.main /\ run.creds = None
  /\ secret = run.pre.secret

C17_AsStated ==
  (run.handler = "client_changed" /\ IsSome(run.pre.secret)) =>
     /\ run.raised = "" /\ run.main
     /\ Did("set_content") = 1
     /\ Len(secret) = 1
     /\ DOMAIN Value(secret) = {"client-id", "client-secret", "redirect-uri", "name"}
     /\ Value(secret)["redirect-uri"] \in RedirectUris
     /\ \E r \in RelationIds : Value(secret)["name"] = <<"oauth_", ToString(r)>>
     /\ \E seed \in Seeds : Value(secret)["client-id"] = <<"token_hex", ToString(seed)>>
     /\ \E seed \in Seeds : Value(secret)["client-secret"] = <<"token_hex", ToString(seed)>>
     /\ IsSome(run.doc) =>
          LET clients == yaml_get(Value(run.doc), "staticClients")
          IN /\ clients # <<>>
             /\ clients[Len(clients)].id = Value(secret)["client-id"]
             /\ clients[Len(clients)].redirectURIs = <<Value(secret)["redirect-uri"]>>

\* client-changed handled while the secret exists: set_content raised, the
\* secret is what it was and no reconciliation ran
C17_Witness ==
  /\ run.handler = "client_changed" /\ IsSome(run.pre.secret)
  /\ run.raised = "ValueError" /\ ~run.main /\ Did("set_content") = 0
  /\ secret = run.pre.secret

\* the inputs with which Operator.main itself raises: the config file is
\* missing from the container when _update_layer pulls it
MainRaises ==
  /\ run.leader /\ canConnect /\ OidcNegotiated /\ ValidConfiguration
  /\ ~IsSome(run.pre.file)

\* C18 (client-deleted without a secret): a client-deleted event handled
\* when no secret is persisted removes nothing, leaves the secret store
\* empty and raises no secret error; the handler runs a reconciliation
\* whose outcome is the one any reconciliation has on these inputs: the
\* status that leadership, container readiness, relations and configuration
\* dictate (Waiting for leadership on a non-leader, Active on a healthy
\* leader).
C18_DeleteWithoutSecret ==
  (run.handler = "client_deleted" /\ secret = None /\ Did("remove_all_revisions") = 0) =>
     /\ run.main
     /\ run.pre.secret = None
     /\ run.raised \notin {"SecretNotFoundError", "ModelError", "KeyError", "ValueError"}
     /\ run.raised = (IF MainRaises THEN "PathError" ELSE "")
     /\ run.raised = "" => status = DictatedStatus
     /\ ~run.leader => status = WaitingStatus("Waiting for leadership")
     /\ (run.leader /\ canConnect /\ OidcNegotiated /\ IngressNegotiated
           /\ ValidConfiguration /\ IsSome(run.pre.file)) => status = ActiveStatus

C18_Witness ==
  /\ run.handler = "client_deleted" /\ run.leader /\ secret = None
  /\ Did("remove_all_revisions") = 0 /\ run.main /\ run.raised = ""
  /\ status = ActiveStatus

\* C19 (dex-oidc-config send_data): whenever the provider's _send_data has
\* run, on a non-leader no dex-oidc-config data bag has changed (a relation
\* just created has an empty bag) and nothing was written; on the leader
\* the issuer-url of this app's data bag in every dex-oidc-config relation
\* is the URL given to send_data, with one write per relation, so with zero
\* relations nothing is written; send_data itself raises nothing.
C19_SendData ==
  [][(Count(run'.log, "_send_data") = 1 /\ run' # run) =>
       /\ run'.raised \in {"", "PathError"}
       /\ run'.handler = "_send_data" => run'.raised = ""
       /\ IF run'.leader
            THEN /\ \A i \in DOMAIN dexOidcConfig' :
                      dexOidcConfig'[i] = <<issuer_url(Self)'>>
                 /\ Count(run'.log, "send_issuer_url") = Len(dexOidcConfig')
            ELSE /\ \A i \in DOMAIN dexOidcConfig : dexOidcConfig'[i] = dexOidcConfig[i]
                 /\ \A i \in DOMAIN dexOidcConfig' \ DOMAIN dexOidcConfig :
                      dexOidcConfig'[i] = <<>>
                 /\ Count(run'.log, "send_issuer_url") = 0]_vars

C19_Witness ==
  /\ Did("_send_data") = 1 /\ run.leader /\ Len(dexOidcConfig) = 2
  /\ Did("send_issuer_url") = 2
  /\ dexOidcConfig[1] = <<issuer_url(Self)>> /\ dexOidcConfig[2] = <<issuer_url(Self)>>
  /\ config.issuer_url # <<>>

\* C20 as stated: once an event has been handled by the leader with a
\* reconciliation that compiled the config document and left it in the
\* container, the issuer-url in every dex-oidc-config relation equals the
\* issuer of that document, whichever event changed the resolved issuer URL
\* (config change, ingress URL ready or revoked).
C20_AsStated ==
  (run.main /\ run.leader /\ run.raised = "" /\ IsSome(run.doc) /\ file = run.doc) =>
     \A i \in DOMAIN dexOidcConfig :
        dexOidcConfig[i] = <<yaml_get(Value(file), "issuer")>>

\* the ingress URL became available: the workload config has it as issuer,
\* the dex-oidc-config relation still has the service URL
C20_Witness ==
  /\ run.main /\ run.leader /\ status = ActiveStatus /\ file = run.doc
  /\ ingressUrl # <<>> /\ yaml_get(Value(file), "issuer") = ingressUrl
  /\ Len(dexOidcConfig) = 1 /\ IsSome(dexOidcConfig[1])
  /\ Value(dexOidcConfig[1]) # ingressUrl
  /\ Did("_send_data") = 0

\* the OAuth static client main builds from the current secret
CurrentOAuthClient ==
  IF IsSome(secret) THEN Some(OAuthStaticClient(Value(secret))) ELSE None

\* C21 (postcondition of success): whenever a run of main has ended Active,
\* the container plan has exactly one dex service entry and it is the
\* desired descriptor (command "<entrypoint> dex serve <config path>",
\* startup enabled, KUBERNETES_POD_NAMESPACE = the model name), and the file
\* at the config path is the document compiled in that run, which is the
\* document the current configuration, relation data, identity state and
\* secret compile to.
C21_SuccessPostcondition ==
  (run.main /\ status = ActiveStatus) =>
     /\ Cardinality({e \in plan : e.name = "dex"}) = 1
     /\ \A e \in plan :
          e.name = "dex" =>
            /\ e.service.command =
                 <<"/usr/local/bin/docker-entrypoint", " dex serve ",
                   "/etc/dex/config.docker.yaml">>
            /\ e.service.startup = "enabled"
            /\ e.service.environment.KUBERNETES_POD_NAMESPACE = "kubeflow"
            /\ e \in dex_auth_layer
     /\ IsSome(run.doc) /\ file = run.doc
     /\ run.doc = generate_dex_auth_config(Self, CurrentOAuthClient).doc

C21_Witness ==
  /\ run.main /\ status = ActiveStatus /\ run.pre.plan = {} /\ plan = dex_auth_layer
  /\ Did("add_layer") = 1 /\ Did("push") = 1 /\ file = run.doc /\ run.pre.file # run.doc
  /\ IsSome(secret) /\ oidcRel.status = "ok" /\ oidcRel.n > 0

\* C22 as stated: a run of main on a healthy leader (reachable container,
\* negotiated relations, valid configuration) that finds no file at the
\* config path writes the compiled document to that path, restarts the
\* service and ends Active.
C22_AsStated ==
  (/\ run.main /\ run.leader /\ canConnect /\ OidcNegotiated /\ IngressNegotiated
   /\ ValidConfiguration /\ run.pre.file = None) =>
     /\ Did("push") = 1 /\ IsSome(file) /\ file = run.doc
     /\ Did("restart") = 1
     /\ run.raised = "" /\ status = ActiveStatus

\* the run that found no file at the config path: pull raised, nothing was
\* pushed or restarted and the status is still Maintenance
C22_Witness ==
  /\ run.main /\ run.leader /\ canConnect /\ run.pre.file = None
  /\ run.raised = "PathError" /\ IsSome(run.doc) /\ file = None
  /\ Did("push") = 0 /\ Did("restart") = 0 /\ Did("add_layer") = 1
  /\ status.type = "maintenance"

\* C23 (ingress route publication): a run of main that ended Active (which
\* only a leader's does) with an ingress relation that has negotiated a
\* version has sent it exactly {prefix "/dex", rewrite "/dex", service the
\* app name, port the configured port}; with no ingress relation nothing is
\* sent, and an otherwise healthy leader still ends Active.
C23_IngressPublication ==
  /\ (run.main /\ status = ActiveStatus) =>
       /\ run.leader
       /\ ingressRel.status \in {"ok", "absent"}
       /\ ingressRel.status = "ok" =>
            /\ Did("send_data") = 1
            /\ run.ingress_data =
                 <<[prefix |-> "/dex", rewrite |-> "/dex", service |-> "dex-auth",
                    port |-> config.port]>>
       /\ ingressRel.status = "absent" =>
            (Did("send_data") = 0 /\ run.ingress_data = <<>>)
  /\ (/\ run.main /\ run.leader /\ canConnect /\ OidcNegotiated /\ ValidConfiguration
      /\ IsSome(run.pre.file) /\ ingressRel.status \in {"ok", "absent"})
       => status = ActiveStatus

C23_Witness ==
  /\ run.main /\ status = ActiveStatus /\ ingressRel.status = "ok"
  /\ config.port = 5557 /\ IsSome(run.ingress_data)
  /\ Value(run.ingress_data).port = 5557 /\ Did("send_data") = 1

\* a leader's run of main that reaches handle_ingress: the container is
\* reachable with its config file, the oidc-client relation is absent or
\* negotiated and the configuration is valid
ReachesIngress ==
  /\ run.main /\ run.leader /\ canConnect /\ OidcNegotiated /\ ValidConfiguration
  /\ IsSome(run.pre.file)

\* C24 (relation version negotiation): in a leader's run of main with a
\* reachable container, an oidc-client relation that lists no versions
\* ends the run in Waiting and one with no compatible version ends it in
\* Blocked; in a run that reaches handle_ingress the same holds of the
\* ingress relation; an absent relation is no error: with no oidc-client
\* relation the compiled OIDC client list is empty, and with both relations
\* absent the run ends Active.
C24_VersionNegotiation ==
  /\ (run.main /\ run.leader /\ canConnect) =>
       /\ oidcRel.status = "no_versions" => (status.type = "waiting" /\ run.doc = None)
       /\ oidcRel.status = "incompatible" => (status.type = "blocked" /\ run.doc = None)
       /\ (oidcRel.status = "absent" /\ IsSome(run.doc)) =>
            Len(yaml_get(Value(run.doc), "staticClients")) = Len(secret)
  /\ ReachesIngress =>
       /\ run.raised = ""
       /\ ingressRel.status = "no_versions" => status.type = "waiting"
       /\ ingressRel.status = "incompatible" => status.type = "blocked"
       /\ ingressRel.status = "absent" => status = ActiveStatus
       /\ (ingressRel.status = "absent" /\ oidcRel.status = "absent") =>
            /\ status = ActiveStatus
            /\ Len(yaml_get(Value(run.doc), "staticClients")) = Len(secret)

C24_Witness ==
  /\ ReachesIngress /\ oidcRel.status = "ok" /\ ingressRel.status = "no_versions"
  /\ status.type = "waiting" /\ Did("restart") = 1

\* get_data has been called and the relations are as it found them
Called == requirer.result # NoResult

\* C25 (requirer get_data): called with no dex-oidc-config relation it
\* raises DexOidcConfigRelationMissingError; with one relation whose remote
\* data bag is empty it raises DexOidcConfigRelationDataMissingError with
\* the message "No data found in relation dex-oidc-config data bag."; with
\* issuer-url in the bag it returns an object whose issuer_url is the
\* published value; and a call leaves every relation's data as it was.
C25_GetData ==
  /\ [](Called =>
         /\ Len(requirer.relations) = 0 =>
              /\ requirer.result.raised = "DexOidcConfigRelationMissingError"
              /\ requirer.result.value = <<>>
         /\ (Len(requirer.relations) = 1
               /\ \A k \in BagKeys : requirer.relations[1][k] = <<>>) =>
              /\ requirer.result.raised = "DexOidcConfigRelationDataMissingError"
              /\ requirer.result.message =
                   <<"No data found in relation ", "dex-oidc-config", " data bag.">>
              /\ requirer.result.value = <<>>
         /\ (Len(requirer.relations) = 1 /\ requirer.relations[1]["issuer-url"] # <<>>) =>
              /\ requirer.result.raised = ""
              /\ requirer.result.value =
                   <<[issuer_url |-> requirer.relations[1]["issuer-url"][1]]>>)
  /\ [][(requirer'.result # NoResult /\ requirer' # requirer)
          => requirer'.relations = requirer.relations]_vars

C25_Witness ==
  /\ Called /\ Len(requirer.relations) = 1
  /\ requirer.relations[1]["issuer-url"] = <<<<"http://", "my-dex.io", "/dex">>>>
  /\ requirer.relations[1]["other-key"] = <<>>
  /\ requirer.result.raised = ""
  /\ requirer.result.value = <<[issuer_url |-> <<"http://", "my-dex.io", "/dex">>]>>

\* C26 as stated: get_data called with one relation whose remote data bag
\* is not empty but lacks issuer-url raises
\* DexOidcConfigRelationDataMissingError, and no other error type.
C26_AsStated ==
  (/\ Called /\ Len(requirer.relations) = 1
   /\ requirer.relations[1]["issuer-url"] = <<>>
   /\ requirer.relations[1]["other-key"] # <<>>) =>
     requirer.result.raised = "DexOidcConfigRelationDataMissingError"

\* the call on a bag that holds only another key raised KeyError
C26_Witness ==
  /\ Called /\ Len(requirer.relations) = 1
  /\ requirer.relations[1]["issuer-url"] = <<>>
  /\ requirer.relations[1]["other-key"] # <<>>
  /\ requirer.result.raised = "KeyError"

\* the place of an operation in the order of a reconciliation; 0 for the
\* operations the order says nothing about
StepRank(op) ==
  CASE op = "compile" -> 1
    [] op = "add_layer" -> 2
    [] op = "push" -> 3
    [] op = "restart" -> 4
    [] op \in {"send_data", "set_provider_info", "status:active"} -> 5
    [] OTHER -> 0

\* C27 (ordering within one reconciliation): in the operations of a run of
\* main, the compilation of the config document comes before any workload
\* write, the layer write before the config-file write, both before the
\* restart, and the restart before the ingress publication, the OAuth
\* provider-info publication and the transition to Active; none of these
\* happens without the ones the run needs before it (no write or restart
\* without a compiled document, no publication or Active without the
\* restart).
C27_Ordering ==
  run.main =>
     /\ \A i, j \in DOMAIN run.log :
          (i < j /\ StepRank(run.log[i]) # 0 /\ StepRank(run.log[j]) # 0)
            => StepRank(run.log[i]) <= StepRank(run.log[j])
     /\ \A i, j \in DOMAIN run.log :
          (i < j /\ StepRank(run.log[i]) = StepRank(run.log[j])
                 /\ StepRank(run.log[i]) \in 1..4) => FALSE
     /\ (Did("add_layer") + Did("push") + Did("restart") > 0) =>
          (Did("compile") = 1 /\ IsSome(run.doc))
     /\ (Did("send_data") + Did("set_provider_info") + Did("status:active") > 0) =>
          Did("restart") = 1
     /\ Did("status:active") = 1 => run.log[Len(run.log)] = "status:active"

C27_Witness ==
  /\ run.main /\ status = ActiveStatus
  /\ \E a, b, c, d, e, f, g \in DOMAIN run.log :
       /\ a < b /\ b < c /\ c < d /\ d < e /\ e < f /\ f < g
       /\ run.log[a] = "compile" /\ run.log[b] = "add_layer" /\ run.log[c] = "push"
       /\ run.log[d] = "restart" /\ run.log[e] = "send_data"
       /\ run.log[f] = "set_provider_info" /\ run.log[g] = "status:active"

\* the previous run of main wrote the config file and then failed to restart
\* the service
PartialApply ==
  /\ run.main /\ run.raised = "ChangeError" /\ Did("push") = 1 /\ file = run.doc

\* C28 as stated: after a reconciliation that wrote the config file and
\* failed before the restart took effect, the next reconciliation with the
\* same inputs, once the service can start, performs no config-file write, issues the restart and ends
\* Active.
C28_AsStated ==
  [][(PartialApply /\ pebbleHealthy /\ on_main_event) =>
       /\ Count(run'.log, "push") = 0 /\ file' = file
       /\ Count(run'.log, "restart") = 1
       /\ status' = ActiveStatus]_vars

\* C28 (recovery from a partial apply): after a reconciliation that wrote
\* the config file and failed before the restart took effect, the next
\* reconciliation with the same inputs, once the service can start, compiles the same document, finds it
\* equal to the file, performs no config-file write and issues the restart;
\* it ends Active when the ingress relation is absent or has negotiated a
\* version, and otherwise in the Waiting or Blocked status of the ingress
\* negotiation.
C28_Recovery ==
  [][(PartialApply /\ pebbleHealthy /\ on_main_event) =>
       /\ run'.doc = run.doc /\ run'.pre.file = run'.doc
       /\ Count(run'.log, "push") = 0 /\ file' = file
       /\ Count(run'.log, "restart") = 1
       /\ run'.raised = ""
       /\ status' = (CASE ingressRel.status = "no_versions" ->
                            [type |-> "waiting", msg |-> NoVersionsListedMsg("ingress")]
                       [] ingressRel.status = "incompatible" ->
                            [type |-> "blocked", msg |-> NoCompatibleVersionsMsg("ingress")]
                       [] OTHER -> ActiveStatus)]_vars

\* a run entered in the Maintenance status an aborted run left, with the
\* file that run wrote: nothing is pushed, the service is restarted, Active
C28_Witness ==
  /\ run.main /\ run.raised = ""
  /\ run.pre.status.type = "maintenance"
  /\ IsSome(run.pre.file) /\ run.pre.file = run.doc /\ run.pre.plan = dex_auth_layer
  /\ Did("push") = 0 /\ Did("restart") = 1 /\ status = ActiveStatus

\* a step in which an event is dispatched to the charm
EventStep == ~service_fault /\ ~service_repaired

\* C29 (fatal errors never yield Active): a handler run that an exception
\* other than ErrorWithStatus leaves (the missing config file at pull, the
\* failed restart, a secret-store error in an OAuth handler) does not set
\* Active and publishes no OAuth provider info, and a run of main it
\* interrupted leaves the unit in Maintenance; the next event that runs main
\* starts from the beginning on what the failed run left: it checks
\* leadership, sets Maintenance on a leader, and compiles the document anew
\* before any write or restart.
C29_FatalErrors ==
  /\ [](run.raised # "" =>
          /\ Did("status:active") = 0 /\ Did("set_provider_info") = 0
          /\ run.oauth_info = None /\ run.ingress_data = None
          /\ run.main => (status # ActiveStatus
                          /\ (Did("status:maintenance") = 1 => status.type = "maintenance")))
  /\ [][(run.raised # "" /\ EventStep /\ run'.main) =>
          /\ run'.pre.plan = plan /\ run'.pre.file = file /\ run'.pre.status = status
          /\ Count(run'.log, "status:maintenance") = (IF run'.leader THEN 1 ELSE 0)
          /\ (Count(run'.log, "add_layer") + Count(run'.log, "push")
                + Count(run'.log, "restart") > 0) => Count(run'.log, "compile") = 1
          /\ (run'.raised = "" /\ status' = ActiveStatus) =>
               (Count(run'.log, "restart") = 1 /\ file' = run'.doc)]_vars

\* a unit that was Active runs main, writes the file, fails to restart the
\* service and is left in Maintenance
C29_Witness ==
  /\ run.main /\ run.raised = "ChangeError" /\ run.pre.status = ActiveStatus
  /\ Did("push") = 1 /\ status = MaintenanceStatus("Configuring dex charm")
  /\ run.oauth_info = None

\* C30 (OAuth provider info is consistent with the workload config): a
\* handler publishes OAuth provider endpoints only in a leader's run of main
\* that raised nothing, restarted the service and ended Active, and every
\* such run publishes them; the published issuer_url is the `issuer` of the
\* document compiled in that run, which is the content of the config file,
\* and the authorization, token, jwks, introspection and userinfo endpoints
\* are that issuer followed by /auth, /token, /keys, /token/introspect and
\* /userinfo; a run that ends Waiting or Blocked publishes none.
C30_ProviderInfoConsistent ==
  /\ IsSome(run.oauth_info) <=>
       (run.main /\ run.leader /\ run.raised = "" /\ status = ActiveStatus)
  /\ Did("set_provider_info") = (IF IsSome(run.oauth_info) THEN 1 ELSE 0)
  /\ IsSome(run.oauth_info) =>
       /\ Did("restart") = 1 /\ IsSome(run.doc) /\ file = run.doc
       /\ LET info == Value(run.oauth_info)
              issuer == yaml_get(Value(run.doc), "issuer")
          IN /\ info.issuer_url = issuer
             /\ info.authorization_endpoint = issuer \o <<"/auth">>
             /\ info.token_endpoint = issuer \o <<"/token">>
             /\ info.jwks_endpoint = issuer \o <<"/keys">>
             /\ info.introspection_endpoint = issuer \o <<"/token/introspect">>
             /\ info.userinfo_endpoint = issuer \o <<"/userinfo">>
  /\ (run.main /\ status.type \in {"waiting", "blocked"}) => run.oauth_info = None

\* provider info published by a run that wrote the file, for an issuer taken
\* from the ingress URL
C30_Witness ==
  /\ run.main /\ run.leader /\ status = ActiveStatus /\ IsSome(run.oauth_info)
  /\ Did("push") = 1 /\ ingressUrl # <<>>
  /\ Value(run.oauth_info).issuer_url = ingressUrl
  /\ yaml_get(Value(file), "issuer") = ingressUrl
  /\ Value(run.oauth_info).token_endpoint = ingressUrl \o <<"/token">>

\* whether a document's staticClients holds a client synthesized from the
\* OAuth secret (its name is oauth_<relation id>)
HasOAuthClient(doc) ==
  \E i \in DOMAIN yaml_get(doc, "staticClients") :
     yaml_get(doc, "staticClients")[i].name[1] = "oauth_"

\* C31 (client-deleted destroys the secret): a client-deleted event on the
\* leader with a persisted secret removes the secret before main is
\* entered, and on a non-leader leaves the secret as it was; the document
\* compiled by the run the handler makes, and by every run made while no
\* secret is persisted, has no synthesized OAuth client in staticClients,
\* and what those runs write to the config file is that document; a secret
\* reappears only in a client-created step.
C31_ClientDeleted ==
  /\ [](/\ (run.handler = "client_deleted" /\ run.leader /\ Did("remove_all_revisions") = 1) =>
             /\ secret = None /\ run.pre.secret = None /\ run.main
             /\ run.log[1] = "remove_all_revisions"
        /\ (run.main /\ secret = None /\ IsSome(run.doc)) =>
             /\ ~HasOAuthClient(Value(run.doc))
             /\ Did("push") = 1 => file = run.doc)
  /\ [][/\ (run'.handler = "client_deleted" /\ changes' # changes /\ leader /\ IsSome(secret)) =>
             (secret' = None /\ Count(run'.log, "remove_all_revisions") = 1)
        /\ (run'.handler = "client_deleted" /\ changes' # changes /\ ~leader) =>
             (secret' = secret /\ Count(run'.log, "remove_all_revisions") = 0)
        /\ (secret = None /\ secret' # None) => run'.handler = "client_created"]_vars

\* the leader's file held the OAuth client; client-deleted removed the
\* secret and the run it made wrote a document without it
C31_Witness ==
  /\ run.handler = "client_deleted" /\ run.leader /\ Did("remove_all_revisions") = 1
  /\ secret = None /\ IsSome(run.doc) /\ Did("push") = 1 /\ file = run.doc
  /\ run.pre.file # Some(ImageConfig) /\ IsSome(run.pre.file)
  /\ HasOAuthClient(Value(run.pre.file))
  /\ ~HasOAuthClient(Value(file))

\* C32 (descriptor replacement): a run of main that reaches the comparison
\* of the plan with the desired layer and finds the plan's services
\* different writes the layer once, after which the plan's services are
\* exactly the desired services: the only dex entry is the desired one and
\* no field of the previous dex entry survives; a run that finds them equal
\* writes no layer, and so does the run of main that follows a run that
\* wrote the layer.
C32_DescriptorReplacement ==
  /\ [](/\ (run.main /\ IsSome(run.doc) /\ run.pre.plan # dex_auth_layer) =>
             /\ Did("add_layer") = 1
             /\ plan = dex_auth_layer
             /\ \A e \in plan : e.name = container_name => e \in dex_auth_layer
             /\ \A e \in run.pre.plan : e.name = container_name => e \notin plan
        /\ (run.main /\ IsSome(run.doc) /\ run.pre.plan = dex_auth_layer) =>
             (Did("add_layer") = 0 /\ plan = dex_auth_layer))
  /\ [][(run.main /\ Did("add_layer") = 1 /\ run'.main /\ run' # run) =>
          (Count(run'.log, "add_layer") = 0 /\ plan' = dex_auth_layer)]_vars

\* the plan held the earlier revision's dex entry; the run replaced it
C32_Witness ==
  /\ run.main /\ run.pre.plan = StaleLayer /\ Did("add_layer") = 1
  /\ plan = dex_auth_layer
  /\ \A e \in plan : e.service.user = "_daemon_" /\ e.service.startup = "enabled"
                     /\ DOMAIN e.service.environment = {"KUBERNETES_POD_NAMESPACE"}

\* the checks that precede the workload writes have passed: leadership,
\* container reachability, the oidc-client negotiation, config validation
PassedEarlyChecks ==
  run.leader /\ canConnect /\ OidcNegotiated /\ ValidConfiguration

\* C33 as stated: a run of main that ends in Waiting or Blocked has written
\* no layer, written no config file and restarted nothing in that run,
\* whichever check produced the status.
C33_AsStated ==
  (run.main /\ run.raised = "" /\ status.type \in {"waiting", "blocked"}) =>
     (Did("add_layer") = 0 /\ Did("push") = 0 /\ Did("restart") = 0)

\* C33 (halting without side effects): a run of main that ends in Waiting
\* or Blocked because of leadership, container reachability, the oidc-client
\* negotiation or config validation has written no layer, written no config
\* file and restarted nothing, and leaves plan and file as it found them; a
\* run that ends in Waiting or Blocked because of the ingress negotiation
\* has already applied the layer and the config file and restarted the
\* service, and publishes nothing over the ingress and oauth relations.
C33_HaltWithoutSideEffects ==
  (run.main /\ run.raised = "" /\ status.type \in {"waiting", "blocked"}) =>
     IF PassedEarlyChecks
       THEN /\ ~IngressNegotiated
            /\ Did("restart") = 1 /\ plan = dex_auth_layer /\ file = run.doc
            /\ Did("add_layer") = (IF run.pre.plan # dex_auth_layer THEN 1 ELSE 0)
            /\ Did("push") = (IF run.pre.file # run.doc THEN 1 ELSE 0)
            /\ run.ingress_data = None /\ run.oauth_info = None
       ELSE /\ Did("add_layer") = 0 /\ Did("push") = 0 /\ Did("restart") = 0
            /\ plan = run.pre.plan /\ file = run.pre.file

\* a leader whose plan is still to be written halts on the oidc-client
\* negotiation: Blocked, nothing written
C33_Witness ==
  /\ run.main /\ run.leader /\ canConnect /\ oidcRel.status = "incompatible"
  /\ status.type = "blocked" /\ run.pre.plan = {} /\ plan = {}
  /\ IsSome(file) /\ file = run.pre.file /\ Did("restart") = 0 /\ Did("compile") = 0

\* C34 as stated: a layer write happens only in a successful run of main,
\* one that raises nothing and ends Active.
C34_AsStated ==
  (run.main /\ Did("add_layer") > 0) => (run.raised = "" /\ status = ActiveStatus)

\* C34 (the desired descriptor is fixed): the desired services are the same
\* whatever the configuration, the relation data and the secret are; a run
\* writes the layer at most once, only when it finds a plan that differs,
\* and leaves the desired services; from then on, as long as the container
\* is not replaced, no step changes the plan or writes the layer, whatever
\* configuration, relation or secret change it handles.  The run that
\* writes the layer is the first one that reaches the comparison of the
\* plan, whether it then ends Active, halts on the ingress negotiation or
\* fails pulling the config file.
C34_LayerWrittenOnce ==
  /\ [](/\ Did("add_layer") <= 1
        /\ Did("add_layer") = 1 => (run.pre.plan # dex_auth_layer /\ plan = dex_auth_layer)
        /\ (run.main /\ IsSome(run.doc)) => plan = dex_auth_layer
        /\ \A e \in dex_auth_layer :
             e.service.environment = [KUBERNETES_POD_NAMESPACE |-> Namespace])
  /\ [][~container_down =>
          /\ plan' \in {plan, dex_auth_layer}
          /\ plan = dex_auth_layer =>
               (plan' = plan /\ (run' # run => Count(run'.log, "add_layer") = 0))]_vars

\* with the layer in place, a run under another configuration and with an
\* OAuth secret rewrites the file and not the layer
C34_Witness ==
  /\ run.main /\ IsSome(run.doc) /\ run.pre.plan = dex_auth_layer /\ plan = dex_auth_layer
  /\ Did("add_layer") = 0 /\ Did("push") = 1 /\ Did("restart") = 1
  /\ config.port # DefaultConfig.port /\ IsSome(secret)

\* C35 as stated: a client-changed event handled while no secret is
\* persisted creates no secret, raises nothing, and runs main to a terminal
\* status (Active, Waiting or Blocked).
C35_AsStated ==
  (run.handler = "client_changed" /\ run.pre.secret = None) =>
     /\ secret = None /\ Did("add_secret") = 0
     /\ run.raised = ""
     /\ run.main /\ status.type \in {"active", "waiting", "blocked"}

\* client-changed with no secret persisted: get_secret raised, main was not
\* entered, the status is what it was
C35_Witness ==
  /\ run.handler = "client_changed" /\ run.pre.secret = None /\ secret = None
  /\ run.raised = "SecretNotFoundError" /\ ~run.main /\ run.log = <<>>
  /\ status = run.pre.status

\* C36 as stated: the dispatch of a relation-changed event, of a
\* relation-broken event and of an event passed in refresh_events emits
\* exactly one DexOidcConfigUpdatedEvent, and no other dispatch emits any.
C36_AsStated ==
  requirer.event # "" =>
     requirer.emitted =
       (IF requirer.event \in {"relation_changed", "relation_broken"} \cup RefreshEvents
          THEN 1 ELSE 0)

\* a refresh event that is not a relation event: the handler raised and
\* nothing was emitted
C36_Witness ==
  /\ requirer.event = "config_changed" /\ requirer.emitted = 0
  /\ requirer.handler_raised = "AttributeError"

\* what the claim says of get_oauth_static_client
GetOAuthStaticClientAsClaimed ==
  oauthService.call = "get_oauth_static_client" =>
     /\ (oauthService.leader /\ oauthService.pre = None) =>
          /\ oauthService.raised = "" /\ oauthService.log = <<"add_secret">>
          /\ IsSome(secret) /\ IsSome(oauthService.value)
          /\ StrLen(Value(secret)["client-id"]) = 32
          /\ StrLen(Value(secret)["client-secret"]) = 32
          /\ Value(oauthService.value).client_id = Value(secret)["client-id"]
          /\ Value(oauthService.value).client_secret = Value(secret)["client-secret"]
     /\ IsSome(oauthService.pre) =>
          /\ oauthService.raised = "" /\ oauthService.log = <<>>
          /\ secret = oauthService.pre
          /\ oauthService.value =
               Some([client_id |-> Value(oauthService.pre)["client-id"],
                     client_secret |-> Value(oauthService.pre)["client-secret"]])
     /\ (~oauthService.leader /\ oauthService.pre = None) =>
          /\ oauthService.raised = "RuntimeError" /\ oauthService.log = <<>>
          /\ secret = None /\ oauthService.value = None

\* C37 as stated: get_oauth_static_client creates one secret with
\* 32-character credentials on the leader when there is none and returns
\* them, returns the stored pair without creating anything when there is
\* one, and raises RuntimeError creating nothing on a non-leader when there
\* is none; remove_oauth_static_client leaves no secret and raises nothing,
\* whether or not one was stored.
C37_AsStated ==
  /\ GetOAuthStaticClientAsClaimed
  /\ oauthService.call = "remove_oauth_static_client" =>
       (secret = None /\ oauthService.raised = "")

\* remove_oauth_static_client called on a non-leader while the secret is
\* stored: the secret is still there
C37_Witness ==
  /\ oauthService.call = "remove_oauth_static_client" /\ ~oauthService.leader
  /\ IsSome(oauthService.pre) /\ secret = oauthService.pre
  /\ oauthService.log = <<>>
====
